---- MODULE Spec2Model ----
(***************************************************************************)
(* A model of tmux's terminal output engine (tty.c): the shadow of the     *)
(* terminal's state (cursor, scroll region, cell attributes), the cursor   *)
(* mover, the region setter, the attribute engine, the cell emitter, the   *)
(* line painter, the per-pane command handlers and the multi-client        *)
(* dispatcher.  The bytes the engine appends to the output buffer are      *)
(* modelled as a sequence of tokens, one per terminfo capability expansion *)
(* or literal byte; a reference terminal consumes the same tokens.         *)
(*                                                                         *)
(* u_int values are kept as the signed residue of the 32-bit value:        *)
(* UINT_MAX is -1, UINT_MAX - 1 is -2 and so on, so that + and - wrap as   *)
(* in C and equality is exact; the unsigned order is ULt/UGt/UGe/ULe.      *)
(***************************************************************************)
EXTENDS Integers, Sequences, FiniteSets, TLC

VARIABLES
    tty,    \* struct tty: the shadow state, the terminal's capabilities and the bytes of the last operation
    rt,     \* the reference terminal that has consumed every byte emitted so far
    pane,   \* struct window_pane: the pane's offsets, size and style
    op,     \* the last operation: its name (and, for region_set, the region asked for)
    clients, \* the clients list (TAILQ clients): each client's session, flags and tty
    calls   \* the handler invocations of the last tty_write, in order

vars == <<tty, rt, pane, op, clients, calls>>

(***************************************************************************)
(* Bounds of the model.                                                    *)
(***************************************************************************)
\* Columns and rows of the terminal.
MaxX == 3
MaxY == 3

(***************************************************************************)
(* u_int arithmetic.                                                       *)
(***************************************************************************)
UINT_MAX == -1

ULt(a, b) ==
    \/ a >= 0 /\ b >= 0 /\ a < b
    \/ a >= 0 /\ b < 0
    \/ a < 0 /\ b < 0 /\ a < b
UGt(a, b) == ULt(b, a)
UGe(a, b) == ~ULt(a, b)
ULe(a, b) == ~ULt(b, a)

Abs(n) == IF n < 0 THEN -n ELSE n

(***************************************************************************)
(* Bytes: one token per capability expansion or literal byte.              *)
(***************************************************************************)
Tok(k, a, b) == [k |-> k, a |-> a, b |-> b]

Emit(t, tok) == [t EXCEPT !.out = Append(@, tok)]

\* tty_term_has / tty_term_flag: the capability table is a set of names.
FullCaps ==
    {"CUP", "HOME", "CUB1", "CUF1", "CUB", "CUF", "HPA", "CUU1", "CUD1", "CUU", "CUD",
     "VPA", "CSR", "EL", "EL1", "ECH", "ICH", "ICH1", "DCH", "DCH1", "IL", "IL1", "DL",
     "DL1", "RI", "SGR0", "BOLD", "DIM", "SITM", "SMSO", "SMUL", "BLINK", "REV", "INVIS",
     "SMACS", "RMACS", "ENACS", "ACSC", "SETAF", "SETAB", "OP", "AX", "BCE", "XT",
     "SMCUP", "RMCUP", "CLEAR", "CNORM", "CIVIS", "CVVIS", "SMKX", "RMKX", "KMOUS",
     "Cr", "Cs", "Ss", "Se", "Ms"}

\* The least a terminal may declare: tty_term_find refuses a terminal without
\* clear, without cup, or with neither cud nor cud1.
BasicCaps == {"CUP", "CUD1", "CLEAR", "SGR0", "SETAF", "SETAB", "CNORM", "CIVIS"}

Term(caps, flags, colors) == [caps |-> caps, flags |-> flags, colors |-> colors]

\* The terminal descriptions (struct tty_term) a tty may point to: a full
\* terminal; one without BCE and HOME; a minimal one; full terminals of 16
\* and of 256 colours; one with direct colour; one that wraps early; one
\* without VPA and HOME; one without HPA and the one-step moves; one without
\* AX; one without SETAB; one without SETAB and REV.
Terms ==
    [full |-> Term(FullCaps, {}, 8),
     nobce |-> Term(FullCaps \ {"BCE", "HOME"}, {}, 8),
     basic |-> Term(BasicCaps, {}, 8),
     c16 |-> Term(FullCaps, {}, 16),
     c256 |-> Term(FullCaps, {"256COLOURS"}, 256),
     rgb |-> Term(FullCaps \cup {"TC"}, {"256COLOURS"}, 256),
     early |-> Term(FullCaps, {"EARLYWRAP"}, 8),
     novpa |-> Term(FullCaps \ {"VPA", "HOME"}, {}, 8),
     nohpa |-> Term(FullCaps \ {"HPA", "CUB1", "CUF1", "CUU1", "CUD1"}, {}, 8),
     noax |-> Term(FullCaps \ {"AX"}, {}, 8),
     nosetab |-> Term(FullCaps \ {"SETAB"}, {}, 8),
     norev |-> Term(FullCaps \ {"SETAB", "REV"}, {}, 8)]

tty_term_has(term, code) == code \in Terms[term].caps
tty_term_flag(term, code) == code \in Terms[term].caps

\* tty_puts: append to the output buffer (an empty string appends nothing).
tty_puts(t, tok) == Emit(t, tok)

\* tty_putcode: the expansion of an absent capability is the empty string.
tty_putcode(t, code) ==
    IF tty_term_has(t.term, code) THEN tty_puts(t, Tok(code, 0, 0)) ELSE t

tty_putcode1(t, code, a) ==
    IF a < 0 THEN t
    ELSE IF tty_term_has(t.term, code) THEN tty_puts(t, Tok(code, a, 0)) ELSE t

tty_putcode2(t, code, a, b) ==
    IF a < 0 \/ b < 0 THEN t
    ELSE IF tty_term_has(t.term, code) THEN tty_puts(t, Tok(code, a, b)) ELSE t

\* tty_acs_get: the characters the alternate character set translates.
ACSChars == {113}
tty_acs_get(t, ch) == ch \in ACSChars

tty_use_acs(t) == tty_term_has(t.term, "ACSC") /\ "UTF8" \notin t.flags

\* tty_putc: one byte, with ACS translation, and the column accounting.
tty_putc(t, ch) ==
    LET w == Emit(t, IF "CHARSET" \in t.cell.attr /\ tty_acs_get(t, ch)
                     THEN Tok("ACS", ch, 1) ELSE Tok("CH", ch, 1))
        sx == IF "EARLYWRAP" \in Terms[t.term].flags THEN t.sx - 1 ELSE t.sx
    IN  IF ch >= 32 /\ ch # 127
        THEN IF UGe(w.cx, sx)
             THEN [w EXCEPT !.cx = 1,
                            !.cy = IF w.cy # w.rlower THEN w.cy + 1 ELSE w.cy]
             ELSE [w EXCEPT !.cx = @ + 1]
        ELSE w

\* tty_putn: a multi-byte character of the given display width.
tty_putn(t, ch, width) ==
    [Emit(t, Tok("CH", ch, width)) EXCEPT !.cx = @ + width]

RECURSIVE tty_repeat_space(_, _)
tty_repeat_space(t, n) ==
    IF n = 0 THEN t ELSE tty_repeat_space(tty_putc(t, 32), n - 1)

RECURSIVE RepeatCode(_, _, _)
RepeatCode(t, code, n) ==
    IF n = 0 THEN t ELSE RepeatCode(tty_putcode(t, code), code, n - 1)

tty_emulate_repeat(t, code, code1, n) ==
    IF tty_term_has(t.term, code) THEN tty_putcode1(t, code, n)
    ELSE RepeatCode(t, code1, n)

(***************************************************************************)
(* The cursor mover and the region setter.                                 *)
(***************************************************************************)
\* A cursor mover that compares the target with the shadow before clamping it.
tty_cursor_mut(t, cx0, cy) ==
    IF cx0 = t.cx /\ cy = t.cy THEN t
    ELSE [tty_putcode2(t, "CUP", cy, IF UGt(cx0, t.sx - 1) THEN t.sx - 1 ELSE cx0)
          EXCEPT !.cx = IF UGt(cx0, t.sx - 1) THEN t.sx - 1 ELSE cx0, !.cy = cy]

\* A cursor mover that does not look at the scroll region for a row move.
tty_cursor_noregion_mut(t, cx0, cy) ==
    LET cx == IF UGt(cx0, t.sx - 1) THEN t.sx - 1 ELSE cx0
        thisx == t.cx
        thisy == t.cy
        done(w) == [w EXCEPT !.cx = cx, !.cy = cy]
        absolute == done(tty_putcode2(t, "CUP", cy, cx))
    IN  IF cx = thisx /\ cy = thisy THEN t
        ELSE IF UGt(thisx, t.sx - 1) THEN absolute
        ELSE IF cx = 0 /\ cy = 0 /\ tty_term_has(t.term, "HOME")
             THEN done(tty_putcode(t, "HOME"))
        ELSE IF cx = 0 /\ cy = thisy + 1 /\ thisy # t.rlower
             THEN done(tty_putc(tty_putc(t, 13), 10))
        ELSE IF cy = thisy THEN
            IF cx = 0 THEN done(tty_putc(t, 13))
            ELSE IF cx = thisx - 1 /\ tty_term_has(t.term, "CUB1")
                 THEN done(tty_putcode(t, "CUB1"))
            ELSE IF cx = thisx + 1 /\ tty_term_has(t.term, "CUF1")
                 THEN done(tty_putcode(t, "CUF1"))
            ELSE LET change == thisx - cx IN
                 IF UGt(Abs(change), cx) /\ tty_term_has(t.term, "HPA")
                 THEN done(tty_putcode1(t, "HPA", cx))
                 ELSE IF change > 0 /\ tty_term_has(t.term, "CUB")
                 THEN IF change = 2 /\ tty_term_has(t.term, "CUB1")
                      THEN done(tty_putcode(tty_putcode(t, "CUB1"), "CUB1"))
                      ELSE done(tty_putcode1(t, "CUB", change))
                 ELSE IF change < 0 /\ tty_term_has(t.term, "CUF")
                 THEN done(tty_putcode1(t, "CUF", -change))
                 ELSE absolute
        ELSE IF cx = thisx THEN
            IF thisy # t.rupper /\ cy = thisy - 1 /\ tty_term_has(t.term, "CUU1")
            THEN done(tty_putcode(t, "CUU1"))
            ELSE IF thisy # t.rlower /\ cy = thisy + 1 /\ tty_term_has(t.term, "CUD1")
            THEN done(tty_putcode(t, "CUD1"))
            ELSE LET change == thisy - cy IN
                 IF UGt(Abs(change), cy)
                 THEN IF tty_term_has(t.term, "VPA")
                      THEN done(tty_putcode1(t, "VPA", cy))
                      ELSE absolute
                 ELSE IF change > 0 /\ tty_term_has(t.term, "CUU")
                 THEN done(tty_putcode1(t, "CUU", change))
                 ELSE IF change < 0 /\ tty_term_has(t.term, "CUD")
                 THEN done(tty_putcode1(t, "CUD", -change))
                 ELSE absolute
        ELSE absolute

\* A cursor mover that takes change > 0 for a move to the right.
tty_cursor_direction_mut(t, cx0, cy) ==
    LET cx == IF UGt(cx0, t.sx - 1) THEN t.sx - 1 ELSE cx0
        thisx == t.cx
        thisy == t.cy
        done(w) == [w EXCEPT !.cx = cx, !.cy = cy]
        absolute == done(tty_putcode2(t, "CUP", cy, cx))
    IN  IF cx = thisx /\ cy = thisy THEN t
        ELSE IF UGt(thisx, t.sx - 1) THEN absolute
        ELSE IF cx = 0 /\ cy = 0 /\ tty_term_has(t.term, "HOME")
             THEN done(tty_putcode(t, "HOME"))
        ELSE IF cx = 0 /\ cy = thisy + 1 /\ thisy # t.rlower
             THEN done(tty_putc(tty_putc(t, 13), 10))
        ELSE IF cy = thisy THEN
            IF cx = 0 THEN done(tty_putc(t, 13))
            ELSE IF cx = thisx - 1 /\ tty_term_has(t.term, "CUB1")
                 THEN done(tty_putcode(t, "CUB1"))
            ELSE IF cx = thisx + 1 /\ tty_term_has(t.term, "CUF1")
                 THEN done(tty_putcode(t, "CUF1"))
            ELSE LET change == thisx - cx IN
                 IF UGt(Abs(change), cx) /\ tty_term_has(t.term, "HPA")
                 THEN done(tty_putcode1(t, "HPA", cx))
                 ELSE IF change < 0 /\ tty_term_has(t.term, "CUB")
                 THEN IF change = 2 /\ tty_term_has(t.term, "CUB1")
                      THEN done(tty_putcode(tty_putcode(t, "CUB1"), "CUB1"))
                      ELSE done(tty_putcode1(t, "CUB", change))
                 ELSE IF change > 0 /\ tty_term_has(t.term, "CUF")
                 THEN done(tty_putcode1(t, "CUF", -change))
                 ELSE absolute
        ELSE IF cx = thisx THEN
            IF thisy # t.rupper /\ cy = thisy - 1 /\ tty_term_has(t.term, "CUU1")
            THEN done(tty_putcode(t, "CUU1"))
            ELSE IF thisy # t.rlower /\ cy = thisy + 1 /\ tty_term_has(t.term, "CUD1")
            THEN done(tty_putcode(t, "CUD1"))
            ELSE LET change == thisy - cy IN
                 IF \/ UGt(Abs(change), cy)
                    \/ change < 0 /\ UGt(cy - change, t.rlower)
                    \/ change > 0 /\ ULt(cy - change, t.rupper)
                 THEN IF tty_term_has(t.term, "VPA")
                      THEN done(tty_putcode1(t, "VPA", cy))
                      ELSE absolute
                 ELSE IF change > 0 /\ tty_term_has(t.term, "CUU")
                 THEN done(tty_putcode1(t, "CUU", change))
                 ELSE IF change < 0 /\ tty_term_has(t.term, "CUD")
                 THEN done(tty_putcode1(t, "CUD", -change))
                 ELSE absolute
        ELSE absolute

tty_cursor(t, cx0, cy) ==
    LET cx == IF UGt(cx0, t.sx - 1) THEN t.sx - 1 ELSE cx0
        thisx == t.cx
        thisy == t.cy
        done(w) == [w EXCEPT !.cx = cx, !.cy = cy]
        absolute == done(tty_putcode2(t, "CUP", cy, cx))
    IN  IF cx = thisx /\ cy = thisy THEN t
        ELSE IF UGt(thisx, t.sx - 1) THEN absolute
        ELSE IF cx = 0 /\ cy = 0 /\ tty_term_has(t.term, "HOME")
             THEN done(tty_putcode(t, "HOME"))
        ELSE IF cx = 0 /\ cy = thisy + 1 /\ thisy # t.rlower
             THEN done(tty_putc(tty_putc(t, 13), 10))
        ELSE IF cy = thisy THEN
            IF cx = 0 THEN done(tty_putc(t, 13))
            ELSE IF cx = thisx - 1 /\ tty_term_has(t.term, "CUB1")
                 THEN done(tty_putcode(t, "CUB1"))
            ELSE IF cx = thisx + 1 /\ tty_term_has(t.term, "CUF1")
                 THEN done(tty_putcode(t, "CUF1"))
            ELSE LET change == thisx - cx IN
                 IF UGt(Abs(change), cx) /\ tty_term_has(t.term, "HPA")
                 THEN done(tty_putcode1(t, "HPA", cx))
                 ELSE IF change > 0 /\ tty_term_has(t.term, "CUB")
                 THEN IF change = 2 /\ tty_term_has(t.term, "CUB1")
                      THEN done(tty_putcode(tty_putcode(t, "CUB1"), "CUB1"))
                      ELSE done(tty_putcode1(t, "CUB", change))
                 ELSE IF change < 0 /\ tty_term_has(t.term, "CUF")
                 THEN done(tty_putcode1(t, "CUF", -change))
                 ELSE absolute
        ELSE IF cx = thisx THEN
            IF thisy # t.rupper /\ cy = thisy - 1 /\ tty_term_has(t.term, "CUU1")
            THEN done(tty_putcode(t, "CUU1"))
            ELSE IF thisy # t.rlower /\ cy = thisy + 1 /\ tty_term_has(t.term, "CUD1")
            THEN done(tty_putcode(t, "CUD1"))
            ELSE LET change == thisy - cy IN
                 IF \/ UGt(Abs(change), cy)
                    \/ change < 0 /\ UGt(cy - change, t.rlower)
                    \/ change > 0 /\ ULt(cy - change, t.rupper)
                 THEN IF tty_term_has(t.term, "VPA")
                      THEN done(tty_putcode1(t, "VPA", cy))
                      ELSE absolute
                 ELSE IF change > 0 /\ tty_term_has(t.term, "CUU")
                 THEN done(tty_putcode1(t, "CUU", change))
                 ELSE IF change < 0 /\ tty_term_has(t.term, "CUD")
                 THEN done(tty_putcode1(t, "CUD", -change))
                 ELSE absolute
        ELSE absolute

\* A region setter that programs the margins the wrong way round.
tty_putcode2_region_mut(t) == tty_putcode2(t, "CSR", t.rlower, t.rupper)

\* tty_putcode2(tty, TTYC_CSR, tty->rupper, tty->rlower)
tty_putcode2_region(t) == tty_putcode2(t, "CSR", t.rupper, t.rlower)

\* tty_region once the shadow holds the new region: the workaround move, CSR,
\* and the move to 0,0.
RegionEmit(t) ==
    tty_cursor(tty_putcode2_region(IF UGe(t.cx, t.sx) THEN tty_cursor(t, 0, t.cy) ELSE t),
               0, 0)

\* A region setter that does not look at the shadow.
tty_region_mut(t, rupper, rlower) ==
    IF ~tty_term_has(t.term, "CSR") THEN t
    ELSE RegionEmit([t EXCEPT !.rupper = rupper, !.rlower = rlower])

tty_region(t, rupper, rlower) ==
    IF t.rlower = rlower /\ t.rupper = rupper THEN t
    ELSE IF ~tty_term_has(t.term, "CSR") THEN t
    ELSE RegionEmit([t EXCEPT !.rupper = rupper, !.rlower = rlower])

(***************************************************************************)
(* Colours and cells.                                                      *)
(***************************************************************************)
COLOUR_FLAG_256 == 16777216
COLOUR_FLAG_RGB == 33554432

Is256(c) == (c \div COLOUR_FLAG_256) % 2 = 1
IsRGB(c) == (c \div COLOUR_FLAG_RGB) % 2 = 1

\* grid_default_cell: no attributes, default foreground and background, a space.
grid_default_cell ==
    [flags |-> {}, attr |-> {}, fg |-> 8, bg |-> 8,
     data |-> [ch |-> 32, size |-> 1, width |-> 1]]

\* The SGR part of a cell, as tty->cell is compared and saved.
CellSGR(gc) == [attr |-> gc.attr, fg |-> gc.fg, bg |-> gc.bg]

\* colour_256to16: the palette-folding map (the entries the model's colours use).
colour_256to16(c) ==
    LET i == c % 256 IN
    IF i < 16 THEN i
    ELSE IF i = 196 THEN 9
    ELSE IF i = 21 THEN 12
    ELSE 0

\* colour_find_rgb after colour_split_rgb: the nearest colour of the 6x6x6 cube
\* (the model's RGB colours are exact cube colours).
colour_find_rgb(c) ==
    LET r == (c \div 65536) % 256
        g == (c \div 256) % 256
        b == c % 256
        q(v) == IF v < 48 THEN 0 ELSE IF v < 115 THEN 1 ELSE (v - 35) \div 40
    IN  COLOUR_FLAG_256 + 16 + 36 * q(r) + 6 * q(g) + q(b)

(***************************************************************************)
(* The default-colour resolver.                                            *)
(***************************************************************************)
\* Styles read from the cached copies whatever the window's flags.
window_styles_mut(w) == [agc |-> w.active_style, wgc |-> w.style]

\* The styles tty_default_colours reads: re-fetched from the options when the
\* window is flagged WINDOW_STYLECHANGED, the cached copies otherwise.
window_styles(w) ==
    IF "STYLECHANGED" \in w.flags
    THEN [agc |-> w.options.active_style, wgc |-> w.options.style]
    ELSE [agc |-> w.active_style, wgc |-> w.style]

\* The window as tty_default_colours leaves it.
window_after_default_colours(w) ==
    IF "STYLECHANGED" \in w.flags
    THEN [w EXCEPT !.flags = @ \ {"STYLECHANGED"},
                   !.active_style = w.options.active_style,
                   !.style = w.options.style]
    ELSE w

tty_default_colours(gc, wp) ==
    LET st == window_styles(wp.window)
        pgc == wp.colgc
        isactive == wp.active
        fg == IF gc.fg = 8
              THEN IF pgc.fg # 8 THEN pgc.fg
                   ELSE IF isactive /\ st.agc.fg # 8 THEN st.agc.fg
                   ELSE st.wgc.fg
              ELSE gc.fg
        bg == IF gc.bg = 8
              THEN IF pgc.bg # 8 THEN pgc.bg
                   ELSE IF isactive /\ st.agc.bg # 8 THEN st.agc.bg
                   ELSE st.wgc.bg
              ELSE gc.bg
    IN  [gc EXCEPT !.fg = fg, !.bg = bg]

\* A null pane pointer is NoPane.
NoPane == [null |-> TRUE]
IsNull(wp) == wp = NoPane

(***************************************************************************)
(* The attribute and colour engine.                                        *)
(***************************************************************************)
Has256(t) == "256COLOURS" \in Terms[t.term].flags \/ "256COLOURS" \in t.term_flags

\* tty_check_fg after the RGB step: the 256-colour and aixterm downgrades.
CheckFgPalette(t, gc) ==
    IF Is256(gc.fg)
    THEN IF ~Has256(t)
         THEN IF (colour_256to16(gc.fg) \div 8) % 2 = 1
              THEN IF Terms[t.term].colors >= 16
                   THEN [gc EXCEPT !.fg = (colour_256to16(gc.fg) % 8) + 90]
                   ELSE [gc EXCEPT !.fg = colour_256to16(gc.fg) % 8,
                                   !.attr = @ \cup {"BRIGHT"}]
              ELSE [gc EXCEPT !.fg = colour_256to16(gc.fg), !.attr = @ \ {"BRIGHT"}]
         ELSE gc
    ELSE IF gc.fg >= 90 /\ gc.fg <= 97 /\ Terms[t.term].colors < 16
    THEN [gc EXCEPT !.fg = @ - 90, !.attr = @ \cup {"BRIGHT"}]
    ELSE gc

tty_check_fg(t, gc) ==
    IF IsRGB(gc.fg) /\ tty_term_flag(t.term, "TC") THEN gc
    ELSE CheckFgPalette(t, IF IsRGB(gc.fg) THEN [gc EXCEPT !.fg = colour_find_rgb(gc.fg)]
                           ELSE gc)

\* A background check that brightens the foreground whatever the number of
\* colours.
CheckBgPalette_mut(t, gc) ==
    IF Is256(gc.bg)
    THEN IF ~Has256(t)
         THEN IF (colour_256to16(gc.bg) \div 8) % 2 = 1
              THEN [gc EXCEPT !.bg = colour_256to16(gc.bg) % 8, !.fg = @ + 90]
              ELSE [gc EXCEPT !.bg = colour_256to16(gc.bg)]
         ELSE gc
    ELSE IF gc.bg >= 90 /\ gc.bg <= 97 /\ Terms[t.term].colors < 16
    THEN [gc EXCEPT !.bg = @ - 90]
    ELSE gc

\* tty_check_bg after the RGB step: the 256-colour and aixterm downgrades.
CheckBgPalette(t, gc) ==
    IF Is256(gc.bg)
    THEN IF ~Has256(t)
         THEN IF (colour_256to16(gc.bg) \div 8) % 2 = 1
              THEN IF Terms[t.term].colors >= 16
                   THEN [gc EXCEPT !.bg = colour_256to16(gc.bg) % 8, !.fg = @ + 90]
                   ELSE [gc EXCEPT !.bg = colour_256to16(gc.bg) % 8]
              ELSE [gc EXCEPT !.bg = colour_256to16(gc.bg)]
         ELSE gc
    ELSE IF gc.bg >= 90 /\ gc.bg <= 97 /\ Terms[t.term].colors < 16
    THEN [gc EXCEPT !.bg = @ - 90]
    ELSE gc

tty_check_bg(t, gc) ==
    IF IsRGB(gc.bg) /\ tty_term_flag(t.term, "TC") THEN gc
    ELSE CheckBgPalette(t, IF IsRGB(gc.bg) THEN [gc EXCEPT !.bg = colour_find_rgb(gc.bg)]
                           ELSE gc)

tty_reset(t) ==
    IF t.cell = CellSGR(grid_default_cell) THEN t
    ELSE LET t1 == IF "CHARSET" \in t.cell.attr /\ tty_use_acs(t)
                   THEN tty_putcode(t, "RMACS") ELSE t
         IN  [tty_putcode(t1, "SGR0") EXCEPT !.cell = CellSGR(grid_default_cell)]

\* tty_try_colour: 0 when a sequence was (to be) emitted, -1 otherwise.
tty_try_colour(t, colour, type) ==
    LET fallback_256 == [t |-> tty_puts(t, Tok(type \o ";5", colour % 256, 0)), rc |-> 0]
    IN  IF Is256(colour)
        THEN IF "256COLOURS" \in t.term_flags THEN fallback_256
             ELSE IF "256COLOURS" \in Terms[t.term].flags
             THEN LET cap == IF type = "38" THEN "SETAF" ELSE "SETAB" IN
                  IF ~tty_term_has(t.term, cap) THEN fallback_256
                  ELSE [t |-> tty_putcode1(t, cap, colour % 256), rc |-> 0]
             ELSE fallback_256
        ELSE IF IsRGB(colour)
        THEN IF ~tty_term_flag(t.term, "TC") THEN [t |-> t, rc |-> -1]
             ELSE [t |-> tty_puts(t, Tok(type \o ";2", colour % COLOUR_FLAG_256, 0)), rc |-> 0]
        ELSE [t |-> t, rc |-> -1]

\* The colour is saved only when tty_try_colour emitted a sequence.
TryColourFg(r, gc) == IF r.rc = 0 THEN [r.t EXCEPT !.cell.fg = gc.fg] ELSE r.t
TryColourBg(r, gc) == IF r.rc = 0 THEN [r.t EXCEPT !.cell.bg = gc.bg] ELSE r.t

tty_colours_fg(t, gc) ==
    IF IsRGB(gc.fg) \/ Is256(gc.fg)
    THEN TryColourFg(tty_try_colour(t, gc.fg, "38"), gc)
    ELSE IF gc.fg >= 90 /\ gc.fg <= 97
    THEN [tty_puts(t, Tok("AIX", gc.fg, 0)) EXCEPT !.cell.fg = gc.fg]
    ELSE [tty_putcode1(t, "SETAF", gc.fg) EXCEPT !.cell.fg = gc.fg]

tty_colours_bg(t, gc) ==
    IF IsRGB(gc.bg) \/ Is256(gc.bg)
    THEN TryColourBg(tty_try_colour(t, gc.bg, "48"), gc)
    ELSE IF gc.bg >= 90 /\ gc.bg <= 97
    THEN [tty_puts(t, Tok("AIX", gc.bg + 10, 0)) EXCEPT !.cell.bg = gc.bg]
    ELSE [tty_putcode1(t, "SETAB", gc.bg) EXCEPT !.cell.bg = gc.bg]

\* tty_colours, the default-colour step: a default foreground, then a default
\* background, each only as needed.
ColoursDefaultFg(t, gc) ==
    IF gc.fg = 8 /\ t.cell.fg # 8
    THEN [(IF tty_term_flag(t.term, "AX") THEN tty_puts(t, Tok("39", 0, 0))
           ELSE IF t.cell.fg # 7 THEN tty_putcode1(t, "SETAF", 7)
           ELSE t) EXCEPT !.cell.fg = 8]
    ELSE t

ColoursDefaultBg(t, gc) ==
    IF gc.bg = 8 /\ t.cell.bg # 8
    THEN [(IF tty_term_flag(t.term, "AX") THEN tty_puts(t, Tok("49", 0, 0))
           ELSE IF t.cell.bg # 0 THEN tty_putcode1(t, "SETAB", 0)
           ELSE t) EXCEPT !.cell.bg = 8]
    ELSE t

ColoursDefault(t, gc) ==
    IF gc.fg = 8 \/ gc.bg = 8
    THEN IF ~tty_term_flag(t.term, "AX") /\ tty_term_has(t.term, "OP") THEN tty_reset(t)
         ELSE ColoursDefaultBg(ColoursDefaultFg(t, gc), gc)
    ELSE t

ColoursFg(t, gc) == IF gc.fg # 8 /\ gc.fg # t.cell.fg THEN tty_colours_fg(t, gc) ELSE t
ColoursBg(t, gc) == IF gc.bg # 8 /\ gc.bg # t.cell.bg THEN tty_colours_bg(t, gc) ELSE t

tty_colours(t, gc) ==
    IF gc.fg = t.cell.fg /\ gc.bg = t.cell.bg THEN t
    ELSE ColoursBg(ColoursFg(ColoursDefault(t, gc), gc), gc)

\* tty_set_italics: SITM unless the default-terminal option is screen or screen-*.
ScreenTerminals == {"screen", "screen-256color"}
tty_set_italics(t) ==
    IF tty_term_has(t.term, "SITM") /\ t.default_terminal \notin ScreenTerminals
    THEN tty_putcode(t, "SITM")
    ELSE tty_putcode(t, "SMSO")

\* A fallback that never adds the reverse attribute.
ReverseFallback_mut(t, gc) ==
    IF ~tty_term_has(t.term, "SETAB")
    THEN IF "REVERSE" \in gc.attr
         THEN IF gc.fg # 7 /\ gc.fg # 8 THEN [gc EXCEPT !.attr = @ \ {"REVERSE"}] ELSE gc
         ELSE gc
    ELSE gc

\* The effective desired cell: default colours, reverse fallback, colour downgrade.
\* The reverse attribute as a best effort for a non-default background when the
\* terminal has no setab.
ReverseFallback(t, gc) ==
    IF ~tty_term_has(t.term, "SETAB")
    THEN IF "REVERSE" \in gc.attr
         THEN IF gc.fg # 7 /\ gc.fg # 8 THEN [gc EXCEPT !.attr = @ \ {"REVERSE"}] ELSE gc
         ELSE IF gc.bg # 0 /\ gc.bg # 8 THEN [gc EXCEPT !.attr = @ \cup {"REVERSE"}] ELSE gc
    ELSE gc

\* gc2 of tty_attributes, the effective desired cell: default colours, reverse
\* fallback, colour downgrade.
EffectiveCell(t, gc, wp) ==
    tty_check_bg(t, tty_check_fg(t,
        ReverseFallback(t, IF ~IsNull(wp) THEN tty_default_colours(gc, wp) ELSE gc)))

\* One attribute of tty_attributes: the capability is sent when the bit is newly set.
AttrPut(t, changed, attr, code) == IF attr \in changed THEN tty_putcode(t, code) ELSE t
AttrItalics(t, changed) == IF "ITALICS" \in changed THEN tty_set_italics(t) ELSE t
AttrReverse(t, changed) ==
    IF "REVERSE" \in changed
    THEN IF tty_term_has(t.term, "REV") THEN tty_putcode(t, "REV")
         ELSE IF tty_term_has(t.term, "SMSO") THEN tty_putcode(t, "SMSO")
         ELSE t
    ELSE t
AttrCharset(t, changed) ==
    IF "CHARSET" \in changed /\ tty_use_acs(t) THEN tty_putcode(t, "SMACS") ELSE t

\* tty_attributes from "Set the attributes": changed is gc2.attr & ~tc->attr.
AttrEmit(t, changed) ==
    AttrCharset(
      AttrPut(
        AttrReverse(
          AttrPut(
            AttrPut(
              AttrItalics(
                AttrPut(
                  AttrPut(t, changed, "BRIGHT", "BOLD"),
                  changed, "DIM", "DIM"),
                changed),
              changed, "UNDERSCORE", "SMUL"),
            changed, "BLINK", "BLINK"),
          changed),
        changed, "HIDDEN", "INVIS"),
      changed)

\* tty_attributes after tty_colours: the filter and the save of the attributes.
AttrFilter(t, gc2) == AttrEmit([t EXCEPT !.cell.attr = gc2.attr], gc2.attr \ t.cell.attr)

\* An attribute engine that takes the bits to set from the shadow as it was
\* before any reset.
AttrApply_mut(t, gc2) ==
    AttrEmit([tty_colours(IF t.cell.attr \ gc2.attr # {} THEN tty_reset(t) ELSE t, gc2)
              EXCEPT !.cell.attr = gc2.attr],
             gc2.attr \ t.cell.attr)

\* tty_attributes once gc2 is computed.
AttrApply(t, gc2) ==
    AttrFilter(tty_colours(IF t.cell.attr \ gc2.attr # {} THEN tty_reset(t) ELSE t, gc2), gc2)

tty_attributes(t, gc, wp) == AttrApply(t, EffectiveCell(t, gc, wp))

\* tty_fake_bce: BCE is needed but the terminal does not have it.
tty_fake_bce(t, wp) ==
    LET gc == IF ~IsNull(wp) THEN tty_default_colours(grid_default_cell, wp)
              ELSE grid_default_cell
    IN  IF gc.bg = 8 THEN FALSE ELSE ~tty_term_flag(t.term, "BCE")

(***************************************************************************)
(* The reference terminal: what a terminal of sx columns and sy rows does  *)
(* with each token.  x = sx is the deferred wrap: the cursor sits in the   *)
(* last column and the next character wraps first.  CUU/CUD stop at the    *)
(* scroll region's bounds; a line feed or a wrap in the region's last row  *)
(* scrolls and leaves the cursor there.  CSR homes the cursor.  An ESC     *)
(* byte (only a raw string holds one) starts a sequence the model does not *)
(* interpret: it leaves the cursor at rawxy, any cell of the screen.       *)
(***************************************************************************)
RtDown(r) == IF r.y = r.bot \/ r.y = r.sy - 1 THEN r.y ELSE r.y + 1
RtUp(r) == IF r.y = r.top \/ r.y = 0 THEN r.y ELSE r.y - 1
RtCol(r) == IF r.x >= r.sx THEN r.sx - 1 ELSE r.x
Min(a, b) == IF a < b THEN a ELSE b
Max(a, b) == IF a > b THEN a ELSE b

\* A printable character of width w.
RtChar(r, w) ==
    LET r1 == IF r.x + w > r.sx THEN [r EXCEPT !.x = 0, !.y = RtDown(r)] ELSE r
        r2 == [r1 EXCEPT !.x = @ + w]
    IN  IF r.early /\ r2.x >= r2.sx THEN [r2 EXCEPT !.x = 0, !.y = RtDown(r2)] ELSE r2

\* The colour a terminal shows for an encoded colour: palette entries 0..15 are
\* the classic and the aixterm bright colours.
NormColour(c) ==
    IF Is256(c) /\ ~IsRGB(c)
    THEN LET i == c % 256 IN
         IF i < 8 THEN i ELSE IF i < 16 THEN 90 + (i - 8) ELSE COLOUR_FLAG_256 + i
    ELSE c

RtSetaf(r, n) ==
    IF n < r.colors THEN NormColour(COLOUR_FLAG_256 + n) ELSE r.fg
RtSetab(r, n) ==
    IF n < r.colors THEN NormColour(COLOUR_FLAG_256 + n) ELSE r.bg

RtStep(r, tok, rawxy) ==
    LET k == tok.k IN
    CASE k \in {"CH", "ACS"} ->
           IF tok.a = 13 THEN [r EXCEPT !.x = 0]
           ELSE IF tok.a = 10 THEN [r EXCEPT !.x = RtCol(r), !.y = RtDown(r)]
           ELSE IF tok.a = 27 THEN [r EXCEPT !.x = rawxy[1], !.y = rawxy[2]]
           ELSE IF tok.a < 32 \/ tok.a = 127 THEN r
           ELSE RtChar(r, tok.b)
      [] k \in {"HOME", "CLEAR"} -> [r EXCEPT !.x = 0, !.y = 0]
      [] k = "CUP" -> [r EXCEPT !.x = Min(tok.b, r.sx - 1), !.y = Min(tok.a, r.sy - 1)]
      [] k = "HPA" -> [r EXCEPT !.x = Min(tok.a, r.sx - 1)]
      [] k = "VPA" -> [r EXCEPT !.x = RtCol(r), !.y = Min(tok.a, r.sy - 1)]
      [] k = "CUB1" -> [r EXCEPT !.x = Max(0, RtCol(r) - 1)]
      [] k = "CUB" -> [r EXCEPT !.x = Max(0, RtCol(r) - tok.a)]
      [] k = "CUF1" -> [r EXCEPT !.x = Min(r.sx - 1, RtCol(r) + 1)]
      [] k = "CUF" -> [r EXCEPT !.x = Min(r.sx - 1, RtCol(r) + tok.a)]
      [] k = "CUU1" -> [r EXCEPT !.x = RtCol(r), !.y = RtUp(r)]
      [] k = "CUD1" -> [r EXCEPT !.x = RtCol(r), !.y = RtDown(r)]
      [] k = "CUU" -> [r EXCEPT !.x = RtCol(r),
                                !.y = IF r.y >= r.top THEN Max(r.top, r.y - tok.a)
                                      ELSE Max(0, r.y - tok.a)]
      [] k = "CUD" -> [r EXCEPT !.x = RtCol(r),
                                !.y = IF r.y <= r.bot THEN Min(r.bot, r.y + tok.a)
                                      ELSE Min(r.sy - 1, r.y + tok.a)]
      [] k = "RI" -> [r EXCEPT !.x = RtCol(r), !.y = RtUp(r)]
      [] k = "CSR" -> [r EXCEPT !.top = tok.a, !.bot = tok.b, !.x = 0, !.y = 0]
      [] k = "SGR0" -> [r EXCEPT !.attr = {}, !.fg = 8, !.bg = 8, !.acs = FALSE]
      [] k = "BOLD" -> [r EXCEPT !.attr = @ \cup {"BRIGHT"}]
      [] k = "DIM" -> [r EXCEPT !.attr = @ \cup {"DIM"}]
      [] k = "SITM" -> [r EXCEPT !.attr = @ \cup {"ITALICS"}]
      [] k = "SMSO" -> [r EXCEPT !.attr = @ \cup {"STANDOUT"}]
      [] k = "SMUL" -> [r EXCEPT !.attr = @ \cup {"UNDERSCORE"}]
      [] k = "BLINK" -> [r EXCEPT !.attr = @ \cup {"BLINK"}]
      [] k = "REV" -> [r EXCEPT !.attr = @ \cup {"REVERSE"}]
      [] k = "INVIS" -> [r EXCEPT !.attr = @ \cup {"HIDDEN"}]
      [] k = "SMACS" -> [r EXCEPT !.acs = TRUE]
      [] k = "RMACS" -> [r EXCEPT !.acs = FALSE]
      [] k = "SETAF" -> [r EXCEPT !.fg = RtSetaf(r, tok.a)]
      [] k = "SETAB" -> [r EXCEPT !.bg = RtSetab(r, tok.a)]
      [] k = "39" -> [r EXCEPT !.fg = 8]
      [] k = "49" -> [r EXCEPT !.bg = 8]
      [] k = "AIX" -> IF tok.a >= 100 THEN [r EXCEPT !.bg = tok.a - 10]
                      ELSE [r EXCEPT !.fg = tok.a]
      [] k = "38;5" -> [r EXCEPT !.fg = NormColour(COLOUR_FLAG_256 + tok.a)]
      [] k = "48;5" -> [r EXCEPT !.bg = NormColour(COLOUR_FLAG_256 + tok.a)]
      [] k = "38;2" -> [r EXCEPT !.fg = COLOUR_FLAG_RGB + tok.a]
      [] k = "48;2" -> [r EXCEPT !.bg = COLOUR_FLAG_RGB + tok.a]
      [] OTHER -> r

RECURSIVE RtFeed(_, _, _)
RtFeed(r, out, rawxy) ==
    IF out = <<>> THEN r ELSE RtFeed(RtStep(r, Head(out), rawxy), Tail(out), rawxy)

(***************************************************************************)
(* Modes and the cursor colour.                                            *)
(***************************************************************************)
ALL_MOUSE_MODES == {"MOUSE_STANDARD", "MOUSE_BUTTON"}

tty_force_cursor_colour(t, ccolour) ==
    [(IF ccolour = "" THEN tty_putcode(t, "Cr")
      ELSE IF tty_term_has(t.term, "Cs") THEN tty_puts(t, Tok("Cs", 0, 0)) ELSE t)
     EXCEPT !.ccolour = ccolour]

\* The steps of tty_update_mode, in the order of the code; mode is the wanted
\* mode after the NOCURSOR mask, xor is mode ^ tty->mode.
ModeChanged(xor) == IF "BLINKING" \in xor THEN xor \cup {"CURSOR"} ELSE xor

ModeBlinking(t, xor) ==
    IF "BLINKING" \in xor
    THEN IF tty_term_has(t.term, "CVVIS") THEN tty_putcode(t, "CVVIS")
         ELSE tty_putcode(t, "CNORM")
    ELSE t

ModeCursor(t, mode, changed) ==
    IF "CURSOR" \in changed
    THEN IF "CURSOR" \in mode THEN tty_putcode(t, "CNORM") ELSE tty_putcode(t, "CIVIS")
    ELSE t

ModeCstyle(t, s) ==
    IF t.cstyle # s.cstyle
    THEN [(IF tty_term_has(t.term, "Ss")
           THEN IF s.cstyle = 0 /\ tty_term_has(t.term, "Se")
                THEN tty_putcode(t, "Se")
                ELSE tty_putcode1(t, "Ss", s.cstyle)
           ELSE t) EXCEPT !.cstyle = s.cstyle]
    ELSE t

ModeMouseOn(t, mode) ==
    IF "MOUSE_BUTTON" \in mode THEN tty_puts(t, Tok("1002h", 0, 0))
    ELSE IF "MOUSE_STANDARD" \in mode THEN tty_puts(t, Tok("1000h", 0, 0))
    ELSE t

ModeMouseOff(t) ==
    IF "MOUSE_BUTTON" \in t.mode THEN tty_puts(t, Tok("1002l", 0, 0))
    ELSE IF "MOUSE_STANDARD" \in t.mode THEN tty_puts(t, Tok("1000l", 0, 0))
    ELSE t

ModeMouse_mut(t, mode, changed) ==
    IF changed \cap ALL_MOUSE_MODES # {}
    THEN IF mode \cap ALL_MOUSE_MODES # {}
         THEN tty_puts(ModeMouseOn(t, mode), Tok("1006h", 0, 0))
         ELSE ModeMouseOff(tty_puts(t, Tok("1006l", 0, 0)))
    ELSE t

ModeMouse(t, mode, changed) ==
    IF changed \cap ALL_MOUSE_MODES # {}
    THEN IF mode \cap ALL_MOUSE_MODES # {}
         THEN ModeMouseOn(tty_puts(t, Tok("1006h", 0, 0)), mode)
         ELSE tty_puts(ModeMouseOff(t), Tok("1006l", 0, 0))
    ELSE t

ModeKeypad(t, mode, changed) ==
    IF "KKEYPAD" \in changed
    THEN IF "KKEYPAD" \in mode THEN tty_putcode(t, "SMKX") ELSE tty_putcode(t, "RMKX")
    ELSE t

ModePaste(t, mode, changed) ==
    IF "BRACKETPASTE" \in changed
    THEN IF "BRACKETPASTE" \in mode THEN tty_puts(t, Tok("2004h", 0, 0))
         ELSE tty_puts(t, Tok("2004l", 0, 0))
    ELSE t

ModeEmit(t, mode, xor, s) ==
    [ModePaste(
       ModeKeypad(
         ModeMouse(
           ModeCstyle(ModeCursor(ModeBlinking(t, xor), mode, ModeChanged(xor)), s),
           mode, ModeChanged(xor)),
         mode, ModeChanged(xor)),
       mode, ModeChanged(xor))
     EXCEPT !.mode = mode]

ModeMasked(t, mode, s) == ModeEmit(t, mode, (mode \ t.mode) \cup (t.mode \ mode), s)

\* tty_update_mode(tty, mode, s); s is never NULL where the model calls it.
tty_update_mode(t, mode0, s) ==
    ModeMasked(IF s.ccolour # t.ccolour THEN tty_force_cursor_colour(t, s.ccolour) ELSE t,
               IF "NOCURSOR" \in t.flags THEN mode0 \ {"CURSOR"} ELSE mode0, s)

(***************************************************************************)
(* The cell emitter and the line painter.                                  *)
(***************************************************************************)
RECURSIVE PutcTimes(_, _, _)
PutcTimes(t, ch, n) ==
    IF n = 0 THEN t ELSE PutcTimes(tty_putc(t, ch), ch, n - 1)

\* tty_cell after tty_attributes: the cell's data.
CellData(t, gc) ==
    IF gc.data.size = 1
    THEN IF gc.data.ch < 32 \/ gc.data.ch = 127 THEN t
         ELSE tty_putc(t, gc.data.ch)
    ELSE IF "UTF8" \notin t.flags THEN PutcTimes(t, 95, gc.data.width)
    ELSE tty_putn(t, gc.data.ch, gc.data.width)

tty_cell(t, gc, wp) ==
    IF "EARLYWRAP" \in Terms[t.term].flags /\ t.cy = t.sy - 1 /\ t.cx = t.sx - 1 THEN t
    ELSE IF "PADDING" \in gc.flags THEN t
    ELSE CellData(tty_attributes(t, gc, wp), gc)

\* grid_view_get_cell: the cell of line py at column i, the default cell past
\* the line's used cells.
grid_view_get_cell(s, i, py) ==
    LET gl == s.grid[py + 1] IN
    IF i < gl.cellsize THEN gl.cells[i + 1] ELSE grid_default_cell

\* screen_select_cell: the selection's style with the cell's data, charset bit and flags.
screen_select_cell(s, src) ==
    [flags |-> src.flags,
     attr |-> (s.sel.attr \ {"CHARSET"}) \cup (src.attr \cap {"CHARSET"}),
     fg |-> s.sel.fg, bg |-> s.sel.bg, data |-> src.data]

RECURSIVE DrawCells(_, _, _, _, _, _)
\* One cell of tty_draw_line's loop: a selected cell is drawn in the selection's style.
DrawCell(t, wp, s, gc) ==
    tty_cell(t, IF "SELECTED" \in gc.flags THEN screen_select_cell(s, gc) ELSE gc, wp)

\* for (i = 0; i < sx; i++)
DrawCells(t, wp, s, py, i, sx) ==
    IF i >= sx THEN t
    ELSE DrawCells(DrawCell(t, wp, s, grid_view_get_cell(s, i, py)), wp, s, py, i + 1, sx)

\* sx of tty_draw_line: the screen's width, cut to the line's used cells and to
\* the terminal's width.
DrawLineWidth(t, s, py) == Min(Min(s.sx, s.grid[py + 1].cellsize), t.sx)

\* A line painter that always moves the cursor to the start position.
DrawLineStart_mut(t, s, py, ox, oy) == tty_cursor(t, ox, oy + py)

\* The cursor is not moved to the start position if it will wrap there itself.
DrawLineStart(t, s, py, ox, oy) ==
    IF \/ oy + py = 0
       \/ py = 0
       \/ "WRAPPED" \notin s.grid[py].flags
       \/ ULt(t.cx, t.sx)
       \/ ox # 0
       \/ (oy + py # t.cy + 1 /\ t.cy # s.rlower + oy)
    THEN tty_cursor(t, ox, oy + py) ELSE t

\* The rest of the line, the cursor being at its first unused cell.
DrawLineClear(t, wp, s, ox, sx) ==
    IF /\ sx # s.sx
       /\ ox + s.sx >= t.sx
       /\ tty_term_has(t.term, "EL")
       /\ ~tty_fake_bce(t, wp)
    THEN tty_putcode(t, "EL")
    ELSE tty_repeat_space(t, s.sx - sx)

DrawLineTail(t, wp, s, py, ox, oy, sx) ==
    IF sx < t.sx
    THEN DrawLineClear(tty_cursor(tty_attributes(t, grid_default_cell, wp), ox + sx, oy + py),
                       wp, s, ox, sx)
    ELSE t

\* tty_draw_line between the two tty_update_mode calls.
DrawLineBody(t, wp, s, py, ox, oy) ==
    DrawLineTail(DrawCells(DrawLineStart(t, s, py, ox, oy), wp, s, py, 0,
                           DrawLineWidth(t, s, py)),
                 wp, s, py, ox, oy, DrawLineWidth(t, s, py))

\* The saved TTY_NOCURSOR bit is restored and the mode updated again.
DrawLineRestore(t, flags, s) ==
    tty_update_mode([t EXCEPT !.flags = (@ \ {"NOCURSOR"}) \cup flags], t.mode, s)

tty_draw_line(t, wp, s, py, ox, oy) ==
    DrawLineRestore(
        DrawLineBody(tty_update_mode([t EXCEPT !.flags = @ \cup {"NOCURSOR"}], t.mode, s),
                     wp, s, py, ox, oy),
        t.flags \cap {"NOCURSOR"}, s)

tty_draw_pane(t, wp, py, ox, oy) == tty_draw_line(t, wp, wp.screen, py, ox, oy)

\* A size test that takes a region for large only above the threshold.
tty_large_region_mut(t, ctx) ==
    UGt(ctx.orlower - ctx.orupper, ctx.wp.screen.sy \div 2)

tty_large_region(t, ctx) ==
    UGe(ctx.orlower - ctx.orupper, ctx.wp.screen.sy \div 2)

RECURSIVE DrawPaneRows(_, _, _, _)
\* for (i = from; i < to; i++) tty_draw_pane(tty, wp, i, ctx->xoff, ctx->yoff);
\* t = t has the tty of one row computed before the next row is drawn.
DrawPaneRows(t, ctx, from, to) ==
    IF t = t /\ ~ULt(from, to) THEN t
    ELSE DrawPaneRows(tty_draw_pane(t, ctx.wp, from, ctx.xoff, ctx.yoff), ctx, from + 1, to)

tty_redraw_region(t, ctx) ==
    IF tty_large_region(t, ctx) THEN [t EXCEPT !.wpflags = @ \cup {"PANE_REDRAW"}]
    ELSE IF ULt(ctx.ocy, ctx.orupper) \/ UGt(ctx.ocy, ctx.orlower)
    THEN DrawPaneRows(t, ctx, ctx.ocy, ctx.wp.screen.sy)
    ELSE DrawPaneRows(t, ctx, ctx.orupper, ctx.orlower + 1)

\* A width test that takes every pane for a full-width one.
tty_pane_full_width_mut(t, ctx) == TRUE

tty_pane_full_width(t, ctx) == ctx.xoff = 0 /\ UGe(ctx.wp.screen.sx, t.sx)

\* A pane region setter that hands the bounds over in the wrong order.
tty_region_pane_mut(t, ctx, rupper, rlower) ==
    tty_region(t, ctx.yoff + rlower, ctx.yoff + rupper)

tty_region_pane(t, ctx, rupper, rlower) ==
    tty_region(t, ctx.yoff + rupper, ctx.yoff + rlower)

tty_cursor_pane(t, ctx, cx, cy) ==
    tty_cursor(t, ctx.xoff + cx, ctx.yoff + cy)

(***************************************************************************)
(* The command handlers.  ctx is struct tty_ctx: wp, xoff, yoff, ocx, ocy, *)
(* orupper, orlower, num, cell, last_cell, ptr.                            *)
(***************************************************************************)
\* The handlers below thread the terminal through tty_attributes, tty_region_pane
\* and tty_cursor_pane; the steps after the positioning are separate definitions.
InsertCharacterAt(t, ctx) ==
    IF ~tty_fake_bce(t, ctx.wp) /\
       (tty_term_has(t.term, "ICH") \/ tty_term_has(t.term, "ICH1"))
    THEN tty_emulate_repeat(t, "ICH", "ICH1", ctx.num)
    ELSE tty_draw_pane(t, ctx.wp, ctx.ocy, ctx.xoff, ctx.yoff)

tty_cmd_insertcharacter(t, ctx) ==
    IF ~tty_pane_full_width(t, ctx)
    THEN tty_draw_pane(t, ctx.wp, ctx.ocy, ctx.xoff, ctx.yoff)
    ELSE InsertCharacterAt(
             tty_cursor_pane(tty_attributes(t, grid_default_cell, ctx.wp),
                             ctx, ctx.ocx, ctx.ocy), ctx)

DeleteCharacterAt(t, ctx) ==
    IF tty_term_has(t.term, "DCH") \/ tty_term_has(t.term, "DCH1")
    THEN tty_emulate_repeat(t, "DCH", "DCH1", ctx.num)
    ELSE t

tty_cmd_deletecharacter(t, ctx) ==
    IF \/ ~tty_pane_full_width(t, ctx)
       \/ tty_fake_bce(t, ctx.wp)
       \/ (~tty_term_has(t.term, "DCH") /\ ~tty_term_has(t.term, "DCH1"))
    THEN tty_draw_pane(t, ctx.wp, ctx.ocy, ctx.xoff, ctx.yoff)
    ELSE DeleteCharacterAt(
             tty_cursor_pane(tty_attributes(t, grid_default_cell, ctx.wp),
                             ctx, ctx.ocx, ctx.ocy), ctx)

ClearCharacterAt(t, ctx) ==
    IF tty_term_has(t.term, "ECH") /\ ~tty_fake_bce(t, ctx.wp)
    THEN tty_putcode1(t, "ECH", ctx.num)
    ELSE PutcTimes(t, 32, ctx.num)

tty_cmd_clearcharacter(t, ctx) ==
    ClearCharacterAt(
        tty_cursor_pane(tty_attributes(t, grid_default_cell, ctx.wp), ctx, ctx.ocx, ctx.ocy),
        ctx)

tty_cmd_insertline(t, ctx) ==
    IF \/ ~tty_pane_full_width(t, ctx)
       \/ tty_fake_bce(t, ctx.wp)
       \/ ~tty_term_has(t.term, "CSR")
       \/ ~tty_term_has(t.term, "IL1")
    THEN tty_redraw_region(t, ctx)
    ELSE tty_emulate_repeat(
             tty_cursor_pane(
                 tty_region_pane(tty_attributes(t, grid_default_cell, ctx.wp),
                                 ctx, ctx.orupper, ctx.orlower),
                 ctx, ctx.ocx, ctx.ocy),
             "IL", "IL1", ctx.num)

tty_cmd_deleteline(t, ctx) ==
    IF \/ ~tty_pane_full_width(t, ctx)
       \/ tty_fake_bce(t, ctx.wp)
       \/ ~tty_term_has(t.term, "CSR")
       \/ ~tty_term_has(t.term, "DL1")
    THEN tty_redraw_region(t, ctx)
    ELSE tty_emulate_repeat(
             tty_cursor_pane(
                 tty_region_pane(tty_attributes(t, grid_default_cell, ctx.wp),
                                 ctx, ctx.orupper, ctx.orlower),
                 ctx, ctx.ocx, ctx.ocy),
             "DL", "DL1", ctx.num)

\* A clearline that does not ask whether BCE has to be faked.
ClearLineAt_mut(t, ctx) ==
    IF tty_pane_full_width(t, ctx) /\ tty_term_has(t.term, "EL")
    THEN tty_putcode(t, "EL")
    ELSE tty_repeat_space(t, ctx.wp.screen.sx)

ClearLineAt(t, ctx) ==
    IF /\ tty_pane_full_width(t, ctx)
       /\ ~tty_fake_bce(t, ctx.wp)
       /\ tty_term_has(t.term, "EL")
    THEN tty_putcode(t, "EL")
    ELSE tty_repeat_space(t, ctx.wp.screen.sx)

\* A clearline that clears before it moves the cursor to the line.
tty_cmd_clearline_mut(t, ctx) ==
    tty_cursor_pane(ClearLineAt(tty_attributes(t, grid_default_cell, ctx.wp), ctx), ctx, 0, ctx.ocy)

tty_cmd_clearline(t, ctx) ==
    ClearLineAt(
        tty_cursor_pane(tty_attributes(t, grid_default_cell, ctx.wp), ctx, 0, ctx.ocy), ctx)

ClearEndOfLineAt(t, ctx) ==
    IF /\ tty_pane_full_width(t, ctx)
       /\ tty_term_has(t.term, "EL")
       /\ ~tty_fake_bce(t, ctx.wp)
    THEN tty_putcode(t, "EL")
    ELSE tty_repeat_space(t, ctx.wp.screen.sx - ctx.ocx)

tty_cmd_clearendofline(t, ctx) ==
    ClearEndOfLineAt(
        tty_cursor_pane(tty_attributes(t, grid_default_cell, ctx.wp), ctx, ctx.ocx, ctx.ocy),
        ctx)

ClearStartOfLineWith(t, ctx) ==
    IF ctx.xoff = 0 /\ tty_term_has(t.term, "EL1") /\ ~tty_fake_bce(t, ctx.wp)
    THEN tty_putcode(tty_cursor_pane(t, ctx, ctx.ocx, ctx.ocy), "EL1")
    ELSE tty_repeat_space(tty_cursor_pane(t, ctx, 0, ctx.ocy), ctx.ocx + 1)

tty_cmd_clearstartofline(t, ctx) ==
    ClearStartOfLineWith(tty_attributes(t, grid_default_cell, ctx.wp), ctx)

tty_cmd_reverseindex(t, ctx) ==
    IF ctx.ocy # ctx.orupper THEN t
    ELSE IF \/ ~tty_pane_full_width(t, ctx)
            \/ tty_fake_bce(t, ctx.wp)
            \/ ~tty_term_has(t.term, "CSR")
            \/ ~tty_term_has(t.term, "RI")
    THEN tty_redraw_region(t, ctx)
    ELSE tty_putcode(
             tty_cursor_pane(
                 tty_region_pane(tty_attributes(t, grid_default_cell, ctx.wp),
                                 ctx, ctx.orupper, ctx.orlower),
                 ctx, ctx.ocx, ctx.orupper),
             "RI")

\* A linefeed that scrolls natively whether or not the line wrapped naturally.
tty_cmd_linefeed_mut(t, ctx) ==
    IF ctx.ocy # ctx.orlower THEN t
    ELSE IF \/ ~tty_pane_full_width(t, ctx)
            \/ tty_fake_bce(t, ctx.wp)
            \/ ~tty_term_has(t.term, "CSR")
    THEN IF tty_large_region(t, ctx) THEN [t EXCEPT !.wpflags = @ \cup {"PANE_REDRAW"}]
         ELSE tty_redraw_region(t, ctx)
    ELSE tty_putc(
             tty_cursor_pane(
                 tty_region_pane(tty_attributes(t, grid_default_cell, ctx.wp),
                                 ctx, ctx.orupper, ctx.orlower),
                 ctx, ctx.ocx, ctx.ocy),
             10)

tty_cmd_linefeed(t, ctx) ==
    IF ctx.ocy # ctx.orlower THEN t
    ELSE IF \/ ~tty_pane_full_width(t, ctx)
            \/ tty_fake_bce(t, ctx.wp)
            \/ ~tty_term_has(t.term, "CSR")
    THEN IF tty_large_region(t, ctx) THEN [t EXCEPT !.wpflags = @ \cup {"PANE_REDRAW"}]
         ELSE tty_redraw_region(t, ctx)
    ELSE IF ctx.num # 0 /\ "EARLYWRAP" \notin Terms[t.term].flags THEN t
    ELSE tty_putc(
             tty_cursor_pane(
                 tty_region_pane(tty_attributes(t, grid_default_cell, ctx.wp),
                                 ctx, ctx.orupper, ctx.orlower),
                 ctx, ctx.ocx, ctx.ocy),
             10)

RECURSIVE ElDownRows(_, _, _)
\* for (i = from; i < sy; i++) { EL; if (i == sy - 1) continue; CUD 1; tty->cy++; }
\* EL, then one row down unless this is the last row.
ElDown(t, last) ==
    IF last THEN t ELSE [tty_emulate_repeat(t, "CUD", "CUD1", 1) EXCEPT !.cy = @ + 1]

ElDownRows(t, i, sy) ==
    IF ~ULt(i, sy) THEN t
    ELSE ElDownRows(ElDown(tty_putcode(t, "EL"), i = sy - 1), i + 1, sy)

RECURSIVE SpaceRows(_, _, _, _)
\* for (j = from; j < to; j++) { tty_cursor_pane(0, j); tty_repeat_space(screen_size_x) }
SpaceRows(t, ctx, j, to) ==
    IF ~ULt(j, to) THEN t
    ELSE SpaceRows(tty_repeat_space(tty_cursor_pane(t, ctx, 0, j), ctx.wp.screen.sx),
                   ctx, j + 1, to)

\* After the first EL: the rows below, if any.
ClearEndOfScreenBelow(t, ctx) ==
    IF ctx.ocy # ctx.wp.screen.sy - 1
    THEN ElDownRows(tty_cursor_pane(t, ctx, 0, ctx.ocy + 1), ctx.ocy + 1, ctx.wp.screen.sy)
    ELSE t

ClearEndOfScreenAt(t, ctx) ==
    IF /\ tty_pane_full_width(t, ctx)
       /\ tty_term_has(t.term, "EL")
       /\ ~tty_fake_bce(t, ctx.wp)
    THEN ClearEndOfScreenBelow(tty_putcode(t, "EL"), ctx)
    ELSE SpaceRows(tty_repeat_space(t, ctx.wp.screen.sx - ctx.ocx), ctx, ctx.ocy + 1,
                   ctx.wp.screen.sy)

tty_cmd_clearendofscreen(t, ctx) ==
    ClearEndOfScreenAt(
        tty_cursor_pane(
            tty_region_pane(tty_attributes(t, grid_default_cell, ctx.wp),
                            ctx, 0, ctx.wp.screen.sy - 1),
            ctx, ctx.ocx, ctx.ocy),
        ctx)

RECURSIVE ElDownTimes(_, _)
\* for (i = 0; i < n; i++) { EL; CUD 1; tty->cy++; }
ElDownTimes(t, n) ==
    IF n = 0 THEN t
    ELSE ElDownTimes([tty_emulate_repeat(tty_putcode(t, "EL"), "CUD", "CUD1", 1)
                      EXCEPT !.cy = @ + 1], n - 1)

ClearStartOfScreenAt(t, ctx) ==
    IF /\ tty_pane_full_width(t, ctx)
       /\ tty_term_has(t.term, "EL")
       /\ ~tty_fake_bce(t, ctx.wp)
    THEN ElDownTimes(t, ctx.ocy)
    ELSE SpaceRows(t, ctx, 0, ctx.ocy)

tty_cmd_clearstartofscreen(t, ctx) ==
    tty_repeat_space(
        ClearStartOfScreenAt(
            tty_cursor_pane(
                tty_region_pane(tty_attributes(t, grid_default_cell, ctx.wp),
                                ctx, 0, ctx.wp.screen.sy - 1),
                ctx, 0, 0),
            ctx),
        ctx.ocx + 1)

ClearScreenAt(t, ctx) ==
    IF /\ tty_pane_full_width(t, ctx)
       /\ tty_term_has(t.term, "EL")
       /\ ~tty_fake_bce(t, ctx.wp)
    THEN ElDownRows(t, 0, ctx.wp.screen.sy)
    ELSE SpaceRows(t, ctx, 0, ctx.wp.screen.sy)

tty_cmd_clearscreen(t, ctx) ==
    ClearScreenAt(
        tty_cursor_pane(
            tty_region_pane(tty_attributes(t, grid_default_cell, ctx.wp),
                            ctx, 0, ctx.wp.screen.sy - 1),
            ctx, 0, 0),
        ctx)

RECURSIVE AlignRows(_, _, _, _)
AlignRows(t, ctx, j, to) ==
    IF ~ULt(j, to) THEN t
    ELSE AlignRows(PutcTimes(tty_cursor_pane(t, ctx, 0, j), 69, ctx.wp.screen.sx),
                   ctx, j + 1, to)

tty_cmd_alignmenttest(t, ctx) ==
    AlignRows(tty_region_pane(tty_attributes(t, grid_default_cell, ctx.wp),
                              ctx, 0, ctx.wp.screen.sy - 1),
              ctx, 0, ctx.wp.screen.sy)

\* A positioning that rewinds at the tail of the line without redrawing the
\* last cell.
CmdCellMove_mut(t, ctx) ==
    IF UGt(ctx.ocx, ctx.wp.sx - ctx.cell.data.width)
    THEN IF ctx.xoff # 0 \/ ctx.wp.sx # t.sx
         THEN IF ctx.ocy # ctx.wp.yoff + ctx.wp.screen.rlower
              THEN tty_cursor_pane(t, ctx, 0, ctx.ocy + 1)
              ELSE tty_cursor_pane(t, ctx, 0, ctx.ocy)
         ELSE IF ULt(t.cx, t.sx)
         THEN tty_cursor_pane(t, ctx, ctx.wp.screen.sx - ctx.last_cell.data.width, ctx.ocy)
         ELSE t
    ELSE tty_cursor_pane(t, ctx, ctx.ocx, ctx.ocy)

\* tty_cmd_cell's positioning: "Is the cursor in the very last position?"
CmdCellMove(t, ctx) ==
    IF UGt(ctx.ocx, ctx.wp.sx - ctx.cell.data.width)
    THEN IF ctx.xoff # 0 \/ ctx.wp.sx # t.sx
         THEN IF ctx.ocy # ctx.wp.yoff + ctx.wp.screen.rlower
              THEN tty_cursor_pane(t, ctx, 0, ctx.ocy + 1)
              ELSE tty_cursor_pane(t, ctx, 0, ctx.ocy)
         ELSE IF ULt(t.cx, t.sx)
         THEN tty_cell(tty_cursor_pane(t, ctx,
                                       ctx.wp.screen.sx - ctx.last_cell.data.width, ctx.ocy),
                       ctx.last_cell, ctx.wp)
         ELSE t
    ELSE tty_cursor_pane(t, ctx, ctx.ocx, ctx.ocy)

tty_cmd_cell(t, ctx) ==
    tty_cell(CmdCellMove(IF ctx.ocy = ctx.orlower
                         THEN tty_region_pane(t, ctx, ctx.orupper, ctx.orlower) ELSE t,
                         ctx),
             ctx.cell, ctx.wp)

tty_cmd_utf8character(t, ctx) ==
    tty_draw_pane(t, ctx.wp, ctx.ocy, ctx.xoff, ctx.yoff)

\* The selection is emitted base64-encoded through the Ms capability.
tty_cmd_setselection(t, ctx) ==
    IF ~tty_term_has(t.term, "Ms") THEN t
    ELSE tty_puts(t, Tok("Ms", ctx.num, 0))

RECURSIVE PutcSeq(_, _)
PutcSeq(t, str) ==
    IF str = <<>> THEN t ELSE PutcSeq(tty_putc(t, Head(str)), Tail(str))

\* tty->cx = tty->cy = UINT_MAX; tty->rupper = tty->rlower = UINT_MAX
Unknown(t) ==
    [t EXCEPT !.cx = UINT_MAX, !.cy = UINT_MAX, !.rupper = UINT_MAX, !.rlower = UINT_MAX]

tty_cmd_rawstring(t, ctx) ==
    tty_cursor(tty_attributes(Unknown(PutcSeq(t, SubSeq(ctx.ptr, 1, ctx.num))),
                              grid_default_cell, ctx.wp),
               0, 0)

(***************************************************************************)
(* Terminals, panes, screens and cells the model draws its inputs from.    *)
(***************************************************************************)
Cell(ch, size, width, attr, fg, bg, flags) ==
    [flags |-> flags, attr |-> attr, fg |-> fg, bg |-> bg,
     data |-> [ch |-> ch, size |-> size, width |-> width]]

CellA == Cell(97, 1, 1, {}, 8, 8, {})
CellB == Cell(98, 1, 1, {}, 8, 8, {})
CellQ == Cell(113, 1, 1, {"CHARSET"}, 8, 8, {})
CellWide == Cell(12354, 3, 2, {}, 8, 8, {})
CellPad == Cell(32, 0, 0, {}, 8, 8, {"PADDING"})

\* Grid lines of w cells.
LineFull(w) == [cells |-> [i \in 1..w |-> CellA], cellsize |-> w, flags |-> {"WRAPPED"}]
LineWide(w) ==
    [cells |-> [i \in 1..w |-> IF i = 1 THEN CellWide ELSE IF i = 2 THEN CellPad ELSE CellB],
     cellsize |-> w, flags |-> {}]
LineShort == [cells |-> <<CellB>>, cellsize |-> 1, flags |-> {}]
LineEmpty == [cells |-> <<>>, cellsize |-> 0, flags |-> {}]

GridFull(w, h) == [i \in 1..h |-> LineFull(w)]
GridMixed(w, h) ==
    [i \in 1..h |-> IF i = 1 THEN LineWide(w) ELSE IF i = 2 THEN LineShort ELSE LineEmpty]
Grids(w, h) == {GridFull(w, h), GridMixed(w, h)}

DefaultStyle == [fg |-> 8, bg |-> 8]

Window(style) ==
    [id |-> 0, flags |-> {}, style |-> style, active_style |-> DefaultStyle,
     options |-> [style |-> style, active_style |-> DefaultStyle]]

\* A pane of sx by sy cells at (xoff, yoff) whose window-style is style; its
\* screen has the pane's size.
Pane(xoff, yoff, sx, sy, style) ==
    [xoff |-> xoff, yoff |-> yoff, sx |-> sx, sy |-> sy, flags |-> {}, visible |-> TRUE,
     colgc |-> DefaultStyle, active |-> TRUE, window |-> Window(style),
     screen |-> [sx |-> sx, sy |-> sy, rupper |-> 0, rlower |-> sy - 1,
                 grid |-> <<>>, ccolour |-> "", cstyle |-> 0,
                 sel |-> [attr |-> {"REVERSE"}, fg |-> 8, bg |-> 8]]]

\* The pane with the screen's contents and scroll region as they are when a
\* command is written.
WithScreen(p, grid, rupper, rlower) ==
    [p EXCEPT !.screen.grid = grid, !.screen.rupper = rupper, !.screen.rlower = rlower]

\* The terminals and panes of the engine's specification: a full terminal; one
\* without BCE and HOME under a coloured window-style; a minimal terminal; a
\* full terminal with a pane narrower and shorter than the terminal.
Worlds ==
    {[term |-> "full", utf8 |-> TRUE,
      pane |-> Pane(0, 0, MaxX, MaxY, DefaultStyle)],
     [term |-> "nobce", utf8 |-> FALSE,
      pane |-> Pane(0, 0, MaxX, MaxY, [fg |-> 8, bg |-> 4])],
     [term |-> "basic", utf8 |-> FALSE,
      pane |-> Pane(0, 0, MaxX, MaxY, DefaultStyle)],
     [term |-> "full", utf8 |-> TRUE,
      pane |-> Pane(1, 1, MaxX - 1, MaxY - 1, DefaultStyle)]}

(***************************************************************************)
(* Lifecycle.                                                              *)
(***************************************************************************)
\* The window size tty_resize falls back to.
DefaultSx == 80
DefaultSy == 24

\* tty_init, then the first tty_resize: a zeroed struct tty with its size set.
tty_init(term, utf8, sx, sy) ==
    [sx |-> sx, sy |-> sy, cx |-> UINT_MAX, cy |-> UINT_MAX,
     rupper |-> UINT_MAX, rlower |-> UINT_MAX,
     cell |-> [attr |-> {}, fg |-> 0, bg |-> 0],
     mode |-> {}, flags |-> IF utf8 THEN {"UTF8"} ELSE {},
     cstyle |-> 0, ccolour |-> "", term |-> term, term_flags |-> {},
     default_terminal |-> "screen", focus_events |-> FALSE,
     out |-> <<>>, wpflags |-> {}]

StartAcs(t) == IF tty_use_acs(t) THEN tty_putcode(t, "ENACS") ELSE t
StartMouse(t) ==
    IF tty_term_has(t.term, "KMOUS") THEN tty_puts(t, Tok("mouseoff", 0, 0)) ELSE t
StartFocus(t) ==
    IF tty_term_flag(t.term, "XT") /\ t.focus_events
    THEN tty_puts([t EXCEPT !.flags = @ \cup {"FOCUS"}], Tok("1004h", 0, 0))
    ELSE t
StartShadow_mut(t) ==
    [t EXCEPT !.cx = UINT_MAX, !.cy = UINT_MAX, !.rlower = UINT_MAX, !.rupper = UINT_MAX,
              !.flags = @ \cup {"STARTED"}]

StartShadow(t) ==
    [t EXCEPT !.cx = UINT_MAX, !.cy = UINT_MAX, !.rlower = UINT_MAX, !.rupper = UINT_MAX,
              !.mode = {"CURSOR"}, !.flags = @ \cup {"STARTED"}]

tty_start_tty(t) ==
    tty_force_cursor_colour(
        StartShadow(
            StartFocus(
                StartMouse(
                    tty_putcode(
                        tty_putcode(
                            StartAcs(
                                tty_putcode(
                                    [tty_putcode(tty_putcode(t, "SMCUP"), "SGR0")
                                     EXCEPT !.cell = CellSGR(grid_default_cell)],
                                    "RMKX")),
                            "CLEAR"),
                        "CNORM")))),
        "")

\* The size tty_resize reads: ws is "fail" when the ioctl fails, else <<col, row>>.
ResizeSize(ws) ==
    IF ws = "fail" THEN <<DefaultSx, DefaultSy>>
    ELSE <<IF ws[1] = 0 THEN DefaultSx ELSE ws[1], IF ws[2] = 0 THEN DefaultSy ELSE ws[2]>>

ResizeTo(t) ==
    IF "STARTED" \in t.flags THEN tty_region(tty_cursor(t, 0, 0), 0, t.sy - 1) ELSE t

tty_resize_mut(t, ws) ==
    IF ResizeSize(ws)[1] = t.sx /\ ResizeSize(ws)[2] = t.sy THEN t
    ELSE [t EXCEPT !.sx = ResizeSize(ws)[1], !.sy = ResizeSize(ws)[2],
                   !.cx = UINT_MAX, !.cy = UINT_MAX,
                   !.rupper = UINT_MAX, !.rlower = UINT_MAX]

tty_resize(t, ws) ==
    IF ResizeSize(ws)[1] = t.sx /\ ResizeSize(ws)[2] = t.sy THEN t
    ELSE ResizeTo([t EXCEPT !.sx = ResizeSize(ws)[1], !.sy = ResizeSize(ws)[2],
                            !.cx = UINT_MAX, !.cy = UINT_MAX,
                            !.rupper = UINT_MAX, !.rlower = UINT_MAX])

\* tty_raw writes straight to the terminal; an empty string writes nothing.
tty_raw(t, code) == tty_putcode(t, code)

StopAcs(t) == IF tty_use_acs(t) THEN tty_raw(t, "RMACS") ELSE t
StopCstyle(t) ==
    IF tty_term_has(t.term, "Ss") /\ t.cstyle # 0
    THEN IF tty_term_has(t.term, "Se") THEN tty_raw(t, "Se")
         ELSE tty_puts(t, Tok("Ss", 0, 0))
    ELSE t
StopPaste(t) == IF "BRACKETPASTE" \in t.mode THEN tty_puts(t, Tok("2004l", 0, 0)) ELSE t
StopMouse(t) ==
    IF tty_term_has(t.term, "KMOUS") THEN tty_puts(t, Tok("mouseoff", 0, 0)) ELSE t
StopFocus(t) ==
    IF tty_term_flag(t.term, "XT") /\ "FOCUS" \in t.flags
    THEN tty_puts([t EXCEPT !.flags = @ \ {"FOCUS"}], Tok("1004l", 0, 0))
    ELSE t

\* The sequences tty_stop_tty writes once the ioctl and tcsetattr succeeded.
StopRaw(t) ==
    tty_raw(
        StopFocus(
            StopMouse(
                tty_raw(
                    tty_raw(
                        StopPaste(
                            StopCstyle(
                                tty_raw(
                                    tty_raw(
                                        tty_raw(
                                            StopAcs(tty_putcode2(t, "CSR", 0, t.sy - 1)),
                                            "SGR0"),
                                        "RMKX"),
                                    "CLEAR"))),
                        "Cr"),
                    "CNORM"))),
        "RMCUP")

tty_stop_tty_mut(t, ok) ==
    IF ~ok THEN [t EXCEPT !.flags = @ \ {"STARTED"}]
    ELSE StopRaw([t EXCEPT !.flags = @ \ {"STARTED"}])

\* tty_stop_tty; ok says whether ioctl(TIOCGWINSZ) and tcsetattr succeeded.
tty_stop_tty(t, ok) ==
    IF "STARTED" \notin t.flags THEN t
    ELSE IF ~ok THEN [t EXCEPT !.flags = @ \ {"STARTED"}]
    ELSE StopRaw([t EXCEPT !.flags = @ \ {"STARTED"}])

(***************************************************************************)
(* The engine's specification: one terminal, one pane, every operation.    *)
(***************************************************************************)
\* The terminal before an operation: nothing emitted yet, no pane flag raised.
Fresh(t) == [t EXCEPT !.out = <<>>, !.wpflags = {}]

RtInit(t) ==
    [sx |-> t.sx, sy |-> t.sy, x |-> 0, y |-> 0, top |-> 0, bot |-> t.sy - 1,
     early |-> "EARLYWRAP" \in Terms[t.term].flags, colors |-> Terms[t.term].colors,
     attr |-> {}, fg |-> 8, bg |-> 8, acs |-> FALSE]

\* A resized terminal keeps its cursor inside the screen and resets its margins.
RtResize(r, sx, sy) ==
    [r EXCEPT !.sx = sx, !.sy = sy, !.x = Min(r.x, sx - 1), !.y = Min(r.y, sy - 1),
              !.top = 0, !.bot = sy - 1]

NoCtx ==
    [wp |-> NoPane, xoff |-> 0, yoff |-> 0, ocx |-> 0, ocy |-> 0, orupper |-> 0,
     orlower |-> 0, num |-> 0, cell |-> grid_default_cell,
     last_cell |-> grid_default_cell, ptr |-> <<>>]

\* struct tty_ctx as screen_write_initctx and tty_write fill it for pane p.
Ctx(p, grid, reg, ocx, ocy, num) ==
    [NoCtx EXCEPT !.wp = WithScreen(p, grid, reg[1], reg[2]),
                  !.xoff = p.xoff, !.yoff = p.yoff, !.ocx = ocx, !.ocy = ocy,
                  !.orupper = reg[1], !.orlower = reg[2], !.num = num]

\* The inputs an operation is tried with: the screen's contents g, its scroll
\* region reg, the cursor (ocx, ocy) and the count num.
In(g, reg, ocx, ocy, num) == [g |-> g, reg |-> reg, ocx |-> ocx, ocy |-> ocy, num |-> num]
CtxIn(p, i) == Ctx(p, i.g, i.reg, i.ocx, i.ocy, i.num)

Full(p) == <<0, p.sy - 1>>
Row1 == <<1, 1>>
Gm(p) == GridMixed(p.sx, p.sy)
Gf(p) == GridFull(p.sx, p.sy)

CharInputs(p) == {In(Gm(p), Full(p), 1, 0, 1), In(Gf(p), Full(p), 0, p.sy - 1, 2)}
ClearCharInputs(p) == {In(Gf(p), Full(p), 0, 0, 2), In(Gf(p), Full(p), 1, p.sy - 1, 1)}
LineInputs(p) ==
    {In(Gm(p), Full(p), 0, 1, 1), In(Gf(p), Row1, 0, 1, 2)}
CornerInputs(p) == {In(Gf(p), Full(p), 0, 0, 0), In(Gf(p), Full(p), p.sx - 1, p.sy - 1, 0)}
ScreenInputs(p) == {In(Gf(p), Full(p), 0, 0, 0), In(Gf(p), Full(p), 1, p.sy - 1, 0)}
ReverseIndexInputs(p) ==
    {In(Gm(p), Full(p), 0, 0, 0), In(Gf(p), Row1, 0, 1, 0), In(Gf(p), Row1, 0, 0, 0)}
LineFeedInputs(p) ==
    {In(Gm(p), Full(p), p.sx - 1, p.sy - 1, 0), In(Gf(p), Row1, p.sx - 1, 1, 0),
     In(Gf(p), Full(p), p.sx - 1, p.sy - 1, 1), In(Gf(p), Full(p), 0, 0, 0)}
\* For cell: the inputs with the cell to write and the cell written before it.
CellInputs(p) ==
    {[in |-> In(Gf(p), Full(p), 0, 0, 0), cell |-> CellA, last |-> CellWide],
     [in |-> In(Gf(p), Full(p), p.sx - 1, p.sy - 1, 0), cell |-> CellWide, last |-> CellA],
     [in |-> In(Gf(p), Full(p), p.sx, p.sy - 1, 0), cell |-> CellA, last |-> CellWide],
     [in |-> In(Gf(p), Row1, p.sx, 1, 0), cell |-> CellWide, last |-> CellA]}
Utf8Inputs(p) ==
    {In(Gm(p), Full(p), 0, 0, 0), In(Gf(p), Full(p), 0, 1, 0)}

\* What is recorded of an operation: its name.
OpRec(name) == [name |-> name]

Init ==
    \E w \in Worlds :
        /\ tty = tty_init(w.term, w.utf8, MaxX, MaxY)
        /\ rt = RtInit(tty)
        /\ pane = w.pane
        /\ op = OpRec("init")
        /\ clients = <<>>
        /\ calls = <<>>

Started == "STARTED" \in tty.flags

\* The bookkeeping every operation shares: the reference terminal consumes
\* the bytes, and the operation is recorded.
Done(name, rawxy) ==
    /\ rt' = RtFeed(rt, tty'.out, rawxy)
    /\ op' = OpRec(name)
    /\ UNCHANGED <<pane, clients, calls>>

Start ==
    /\ ~Started
    /\ tty' = tty_start_tty(Fresh(tty))
    /\ Done("start", <<0, 0>>)

CursorTo ==
    /\ Started
    /\ \E pos \in {<<1, 1>>, <<tty.sx, tty.sy - 1>>} :
        /\ tty' = tty_cursor(Fresh(tty), pos[1], pos[2])
        /\ Done("cursor", <<0, 0>>)

\* region_set records the region it was asked for.
RegionSet ==
    /\ Started
    /\ \E reg \in {<<0, tty.sy - 1>>, Row1} :
        /\ tty' = tty_region(Fresh(tty), reg[1], reg[2])
        /\ rt' = RtFeed(rt, tty'.out, <<0, 0>>)
        /\ op' = [name |-> "region", rupper |-> reg[1], rlower |-> reg[2]]
        /\ UNCHANGED <<pane, clients, calls>>

\* A character written at a pending wrap moves the shadow further right and
\* down each time; the cell operations stop once the shadow is more than
\* MaxDrift cells beyond the pending-wrap column or the last row.
MaxDrift == 0
Positioned ==
    /\ tty.cx = UINT_MAX \/ ULe(tty.cx, tty.sx + MaxDrift)
    /\ tty.cy = UINT_MAX \/ ULt(tty.cy, tty.sy + MaxDrift)

CellPut ==
    /\ Started
    /\ Positioned
    /\ \E gc \in {CellQ, CellWide} :
        /\ tty' = tty_cell(Fresh(tty), gc, pane)
        /\ Done("cell_put", <<0, 0>>)

CmdInsertCharacter ==
    /\ Started
    /\ \E i \in CharInputs(pane) : \E c \in {CtxIn(pane, i)} :
        /\ tty' = tty_cmd_insertcharacter(Fresh(tty), c)
        /\ Done("insertcharacter", <<0, 0>>)

CmdDeleteCharacter ==
    /\ Started
    /\ \E i \in CharInputs(pane) : \E c \in {CtxIn(pane, i)} :
        /\ tty' = tty_cmd_deletecharacter(Fresh(tty), c)
        /\ Done("deletecharacter", <<0, 0>>)

CmdClearCharacter ==
    /\ Started
    /\ \E i \in ClearCharInputs(pane) : \E c \in {CtxIn(pane, i)} :
        /\ tty' = tty_cmd_clearcharacter(Fresh(tty), c)
        /\ Done("clearcharacter", <<0, 0>>)

CmdInsertLine ==
    /\ Started
    /\ \E i \in LineInputs(pane) : \E c \in {CtxIn(pane, i)} :
        /\ tty' = tty_cmd_insertline(Fresh(tty), c)
        /\ Done("insertline", <<0, 0>>)

CmdDeleteLine ==
    /\ Started
    /\ \E i \in LineInputs(pane) : \E c \in {CtxIn(pane, i)} :
        /\ tty' = tty_cmd_deleteline(Fresh(tty), c)
        /\ Done("deleteline", <<0, 0>>)

CmdClearLine ==
    /\ Started
    /\ \E i \in CornerInputs(pane) : \E c \in {CtxIn(pane, i)} :
        /\ tty' = tty_cmd_clearline(Fresh(tty), c)
        /\ Done("clearline", <<0, 0>>)

CmdClearEndOfLine ==
    /\ Started
    /\ \E i \in CornerInputs(pane) : \E c \in {CtxIn(pane, i)} :
        /\ tty' = tty_cmd_clearendofline(Fresh(tty), c)
        /\ Done("clearendofline", <<0, 0>>)

CmdClearStartOfLine ==
    /\ Started
    /\ \E i \in CornerInputs(pane) : \E c \in {CtxIn(pane, i)} :
        /\ tty' = tty_cmd_clearstartofline(Fresh(tty), c)
        /\ Done("clearstartofline", <<0, 0>>)

CmdReverseIndex ==
    /\ Started
    /\ \E i \in ReverseIndexInputs(pane) : \E c \in {CtxIn(pane, i)} :
        /\ tty' = tty_cmd_reverseindex(Fresh(tty), c)
        /\ Done("reverseindex", <<0, 0>>)

CmdLineFeed ==
    /\ Started
    /\ \E i \in LineFeedInputs(pane) : \E c \in {CtxIn(pane, i)} :
        /\ tty' = tty_cmd_linefeed(Fresh(tty), c)
        /\ Done("linefeed", <<0, 0>>)

CmdClearEndOfScreen ==
    /\ Started
    /\ \E i \in ScreenInputs(pane) : \E c \in {CtxIn(pane, i)} :
        /\ tty' = tty_cmd_clearendofscreen(Fresh(tty), c)
        /\ Done("clearendofscreen", <<0, 0>>)

CmdClearStartOfScreen ==
    /\ Started
    /\ \E i \in ScreenInputs(pane) : \E c \in {CtxIn(pane, i)} :
        /\ tty' = tty_cmd_clearstartofscreen(Fresh(tty), c)
        /\ Done("clearstartofscreen", <<0, 0>>)

CmdClearScreen ==
    /\ Started
    /\ \E c \in {CtxIn(pane, In(Gf(pane), Full(pane), 0, 0, 0))} :
        /\ tty' = tty_cmd_clearscreen(Fresh(tty), c)
        /\ Done("clearscreen", <<0, 0>>)

CmdAlignmentTest ==
    /\ Started
    /\ \E c \in {CtxIn(pane, In(Gf(pane), Full(pane), 0, 0, 0))} :
        /\ tty' = tty_cmd_alignmenttest(Fresh(tty), c)
        /\ Done("alignmenttest", <<0, 0>>)

CmdCell ==
    /\ Started
    /\ Positioned
    /\ \E i \in CellInputs(pane) :
       \E c \in {[CtxIn(pane, i.in) EXCEPT !.cell = i.cell, !.last_cell = i.last]} :
        /\ tty' = tty_cmd_cell(Fresh(tty), c)
        /\ Done("cell", <<0, 0>>)

CmdUtf8Character ==
    /\ Started
    /\ \E i \in Utf8Inputs(pane) : \E c \in {CtxIn(pane, i)} :
        /\ tty' = tty_cmd_utf8character(Fresh(tty), c)
        /\ Done("utf8character", <<0, 0>>)

CmdSetSelection ==
    /\ Started
    /\ \E c \in {CtxIn(pane, In(Gf(pane), Full(pane), 0, 0, 1))} :
        /\ tty' = tty_cmd_setselection(Fresh(tty), c)
        /\ Done("setselection", <<0, 0>>)

\* The raw string is ESC q: the terminal's cursor is anywhere afterwards.
CmdRawString ==
    /\ Started
    /\ \E rawxy \in {<<0, 0>>, <<tty.sx - 1, tty.sy - 1>>} :
       \E c \in {[CtxIn(pane, In(Gf(pane), Full(pane), 0, 0, 2)) EXCEPT !.ptr = <<27, 113>>]} :
        /\ tty' = tty_cmd_rawstring(Fresh(tty), c)
        /\ Done("rawstring", rawxy)

Next ==
    \/ Start \/ CursorTo \/ RegionSet \/ CellPut
    \/ CmdInsertCharacter \/ CmdDeleteCharacter \/ CmdClearCharacter
    \/ CmdInsertLine \/ CmdDeleteLine
    \/ CmdClearLine \/ CmdClearEndOfLine \/ CmdClearStartOfLine
    \/ CmdReverseIndex \/ CmdLineFeed
    \/ CmdClearEndOfScreen \/ CmdClearStartOfScreen \/ CmdClearScreen
    \/ CmdAlignmentTest \/ CmdCell \/ CmdUtf8Character \/ CmdSetSelection
    \/ CmdRawString

Spec == Init /\ [][Next]_vars

(***************************************************************************)
(* The multi-client dispatcher.                                            *)
(***************************************************************************)
\* Clients in the list.
NClients == 2

\* struct client: session (NULL or the session's current window), flags, the
\* position of the status line, and the tty; stopped remembers that
\* tty_stop_tty cleared STARTED and the tty has not been started since.
Client(session, term, flags, ttyflags, status) ==
    [session |-> session, flags |-> flags, status |-> status, stopped |-> FALSE,
     tty |-> [tty_init(term, FALSE, MaxX, MaxY) EXCEPT !.flags = ttyflags]]
NoSession == [null |-> TRUE, curw |-> 0]
Session(w) == [null |-> FALSE, curw |-> w]

ClientKinds ==
    {Client(Session(0), "full", {}, {}, "top"),
     Client(Session(0), "full", {}, {}, "bottom"),
     Client(Session(0), "basic", {}, {}, "off"),
     Client(Session(0), "full", {"SUSPENDED"}, {}, "top"),
     Client(Session(0), "full", {}, {"FREEZE"}, "top"),
     Client(Session(1), "full", {}, {}, "top"),
     Client(NoSession, "full", {}, {}, "top"),
     Client(Session(0), "none", {}, {}, "top")}

\* status_at_line: -1 without a status line, 0 when it is on top, else the
\* terminal's last row.
status_at_line(c) ==
    IF c.status = "off" THEN -1 ELSE IF c.status = "top" THEN 0 ELSE c.tty.sy - 1

window_pane_visible(wp) == wp.visible

\* A readiness test that forgets the suspended clients.
tty_client_ready_mut(c, wp) ==
    IF c.session.null \/ c.tty.term = "none" THEN FALSE
    ELSE IF "FREEZE" \in c.tty.flags THEN FALSE
    ELSE IF c.session.curw # wp.window.id THEN FALSE
    ELSE TRUE

tty_client_ready(c, wp) ==
    IF c.session.null \/ c.tty.term = "none" THEN FALSE
    ELSE IF "SUSPENDED" \in c.flags THEN FALSE
    ELSE IF "FREEZE" \in c.tty.flags THEN FALSE
    ELSE IF c.session.curw # wp.window.id THEN FALSE
    ELSE TRUE

\* cmdfn(&c->tty, ctx) for the handlers tty_write is called with here.
CmdFn(cmd, t, ctx) ==
    IF cmd = "clearline" THEN tty_cmd_clearline(t, ctx) ELSE tty_cmd_linefeed(t, ctx)

\* ctx->xoff = wp->xoff; ctx->yoff = wp->yoff; if (status_at_line(c) == 0) ctx->yoff++
WriteCtx(ctx, wp, c) ==
    [ctx EXCEPT !.wp = wp, !.xoff = wp.xoff,
                !.yoff = IF status_at_line(c) = 0 THEN wp.yoff + 1 ELSE wp.yoff]

\* The state of tty_write's loop: the clients, the invocations so far and the
\* pane (a handler may flag it for a redraw).
WriteDone(w, i, ctx, t) ==
    [clients |-> [w.clients EXCEPT ![i].tty = t],
     calls |-> Append(w.calls, [client |-> i, xoff |-> ctx.xoff, yoff |-> ctx.yoff]),
     wp |-> [w.wp EXCEPT !.flags = @ \cup t.wpflags]]

WriteClient(w, cmd, ctx, i) ==
    WriteDone(w, i, ctx, CmdFn(cmd, Fresh(w.clients[i].tty), ctx))

RECURSIVE WriteLoop(_, _, _, _)
\* TAILQ_FOREACH(c, &clients, entry)
WriteLoop(w, cmd, ctx, i) ==
    IF i > Len(w.clients) THEN w
    ELSE WriteLoop(IF ~tty_client_ready(w.clients[i], w.wp) THEN w
                   ELSE WriteClient(w, cmd, WriteCtx(ctx, w.wp, w.clients[i]), i),
                   cmd, ctx, i + 1)

\* A dispatcher that does not look at the pane's redraw flag.
tty_write_mut(cmd, ctx, cs) ==
    IF IsNull(ctx.wp) THEN [clients |-> cs, calls |-> <<>>, wp |-> ctx.wp]
    ELSE IF "WINDOW_REDRAW" \in ctx.wp.window.flags
    THEN [clients |-> cs, calls |-> <<>>, wp |-> ctx.wp]
    ELSE IF ~window_pane_visible(ctx.wp) \/ "PANE_DROP" \in ctx.wp.flags
    THEN [clients |-> cs, calls |-> <<>>, wp |-> ctx.wp]
    ELSE WriteLoop([clients |-> cs, calls |-> <<>>, wp |-> ctx.wp], cmd, ctx, 1)

tty_write(cmd, ctx, cs) ==
    IF IsNull(ctx.wp) THEN [clients |-> cs, calls |-> <<>>, wp |-> ctx.wp]
    ELSE IF "WINDOW_REDRAW" \in ctx.wp.window.flags \/ "PANE_REDRAW" \in ctx.wp.flags
    THEN [clients |-> cs, calls |-> <<>>, wp |-> ctx.wp]
    ELSE IF ~window_pane_visible(ctx.wp) \/ "PANE_DROP" \in ctx.wp.flags
    THEN [clients |-> cs, calls |-> <<>>, wp |-> ctx.wp]
    ELSE WriteLoop([clients |-> cs, calls |-> <<>>, wp |-> ctx.wp], cmd, ctx, 1)

\* The pane the commands are written for: one row shorter than the terminal,
\* which leaves room for the status line; as it is, hidden, dropped, or in a
\* window that waits for a redraw.
WritePane == Pane(0, 0, MaxX, MaxY - 1, DefaultStyle)
WritePanes ==
    {WritePane,
     [WritePane EXCEPT !.visible = FALSE],
     [WritePane EXCEPT !.flags = {"PANE_DROP"}],
     [WritePane EXCEPT !.window.flags = {"WINDOW_REDRAW"}]}

WriteInputs(p) ==
    [clearline |-> In(Gf(p), Full(p), 0, 0, 0),
     linefeed |-> In(Gf(p), Full(p), 0, p.sy - 1, 0)]

InitWrite ==
    /\ tty = tty_init("full", FALSE, MaxX, MaxY)
    /\ rt = RtInit(tty)
    /\ pane \in WritePanes
    /\ op = OpRec("init")
    /\ clients \in [1..NClients -> ClientKinds]
    /\ calls = <<>>

\* The server starts a client's terminal.
StartClient ==
    \E i \in DOMAIN clients :
        /\ clients[i].tty.term # "none"
        /\ "STARTED" \notin clients[i].tty.flags
        /\ clients' = [clients EXCEPT ![i].tty = tty_start_tty(Fresh(@)), ![i].stopped = FALSE]
        /\ calls' = <<>>
        /\ op' = OpRec("start_client")
        /\ UNCHANGED <<tty, rt, pane>>

\* The server stops a client's terminal.
StopClient ==
    \E i \in DOMAIN clients, ok \in BOOLEAN :
        /\ clients[i].tty.term # "none"
        /\ clients' = [clients EXCEPT ![i].tty = tty_stop_tty(Fresh(@), ok),
                                      ![i].stopped = @ \/ "STARTED" \in clients[i].tty.flags]
        /\ calls' = <<>>
        /\ op' = OpRec("stop_client")
        /\ UNCHANGED <<tty, rt, pane>>

\* tty_write(cmdfn, ctx) for the pane, or with ctx->wp == NULL.
Write ==
    \E cmd \in {"clearline", "linefeed"}, null \in BOOLEAN :
        \E w \in {tty_write(cmd, IF null THEN NoCtx ELSE CtxIn(pane, WriteInputs(pane)[cmd]),
                            clients)} :
            /\ clients' = w.clients
            /\ calls' = w.calls
            /\ pane' = IF null THEN pane ELSE [pane EXCEPT !.flags = w.wp.flags]
            /\ op' = [name |-> "write", cmd |-> cmd, null |-> null]
            /\ UNCHANGED <<tty, rt>>

\* The server has redrawn the pane.
RedrawDone ==
    /\ "PANE_REDRAW" \in pane.flags
    /\ pane' = [pane EXCEPT !.flags = @ \ {"PANE_REDRAW"}]
    /\ calls' = <<>>
    /\ op' = OpRec("redraw")
    /\ UNCHANGED <<tty, rt, clients>>

NextWrite == StartClient \/ StopClient \/ Write \/ RedrawDone

SpecWrite == InitWrite /\ [][NextWrite]_vars

(***************************************************************************)
(* The attribute engine on its own.                                        *)
(***************************************************************************)
\* The cells attributes() is asked for: plain, coloured from the 8-colour,
\* the aixterm and the 256-colour palettes, and with attributes.
AttrCells ==
    {grid_default_cell,
     Cell(97, 1, 1, {}, 1, 8, {}),
     Cell(97, 1, 1, {}, 8, 4, {}),
     Cell(97, 1, 1, {"BRIGHT"}, 2, 8, {}),
     Cell(97, 1, 1, {"REVERSE"}, 8, 8, {}),
     Cell(97, 1, 1, {}, 91, 8, {}),
     Cell(97, 1, 1, {}, COLOUR_FLAG_256 + 196, 8, {}),
     Cell(97, 1, 1, {}, 1, COLOUR_FLAG_256 + 9, {}),
     Cell(97, 1, 1, {"UNDERSCORE"}, COLOUR_FLAG_256 + 21, COLOUR_FLAG_256 + 21, {})}

AttrWorlds ==
    {[term |-> "full", pane |-> Pane(0, 0, MaxX, MaxY, DefaultStyle)],
     [term |-> "c16", pane |-> Pane(0, 0, MaxX, MaxY, DefaultStyle)],
     [term |-> "c256", pane |-> Pane(0, 0, MaxX, MaxY, DefaultStyle)],
     [term |-> "c16", pane |-> Pane(0, 0, MaxX, MaxY, [fg |-> 3, bg |-> 8])]}

InitAttr ==
    \E w \in AttrWorlds :
        /\ tty = tty_init(w.term, FALSE, MaxX, MaxY)
        /\ rt = RtInit(tty)
        /\ pane = w.pane
        /\ op = OpRec("init")
        /\ clients = <<>>
        /\ calls = <<>>

\* attributes(desired, pane); the desired cell is recorded.
Attributes ==
    /\ Started
    /\ \E gc \in AttrCells :
        /\ tty' = tty_attributes(Fresh(tty), gc, pane)
        /\ rt' = RtFeed(rt, tty'.out, <<0, 0>>)
        /\ op' = [name |-> "attributes", gc |-> gc]
        /\ UNCHANGED <<pane, clients, calls>>

\* reset()
Reset ==
    /\ Started
    /\ tty' = tty_reset(Fresh(tty))
    /\ Done("reset", <<0, 0>>)

\* A cell written through the cell emitter.
AttrCellPut ==
    /\ Started
    /\ Positioned
    /\ \E gc \in AttrCells :
        /\ tty' = tty_cell(Fresh(tty), gc, pane)
        /\ Done("cell_put", <<0, 0>>)

NextAttr == Start \/ Attributes \/ Reset \/ AttrCellPut

SpecAttr == InitAttr /\ [][NextAttr]_vars

(***************************************************************************)
(* The lifecycle and the shadow operations on their own.                   *)
(***************************************************************************)
\* What ioctl(TIOCGWINSZ) answers: a failure, zero columns and rows, the size
\* the tty was opened with, a larger size.
WinSizes == {"fail", <<0, 0>>, <<MaxX, MaxY>>, <<MaxX + 1, MaxY + 1>>}

\* resize(); the answer of the size query is recorded, with whether the tty
\* was started and what its size was.
Resize ==
    \E ws \in WinSizes :
        /\ tty' = tty_resize(Fresh(tty), ws)
        /\ rt' = RtFeed(IF tty'.sx # tty.sx \/ tty'.sy # tty.sy
                        THEN RtResize(rt, tty'.sx, tty'.sy) ELSE rt, tty'.out, <<0, 0>>)
        /\ op' = [name |-> "resize", ws |-> ws]
        /\ UNCHANGED <<pane, clients, calls>>

\* stop(); ok says whether the size query and the line-discipline restore
\* succeeded.
Stop ==
    \E ok \in BOOLEAN :
        /\ tty' = tty_stop_tty(Fresh(tty), ok)
        /\ rt' = RtFeed(rt, tty'.out, <<0, 0>>)
        /\ op' = [name |-> "stop", ok |-> ok]
        /\ UNCHANGED <<pane, clients, calls>>

\* cursor_to(cx, cy) with any target, beyond the last column included; the
\* target is recorded, with whether the call before had the same target.
CursorToAny ==
    /\ Started
    /\ \E cx \in {0, 1, tty.sx - 1, tty.sx, tty.sx + 1} : \E cy \in {0, 1, tty.sy - 1} :
        /\ tty' = tty_cursor(Fresh(tty), cx, cy)
        /\ rt' = RtFeed(rt, tty'.out, <<0, 0>>)
        /\ op' = [name |-> "cursor", cx |-> cx, cy |-> cy,
                  again |-> (op.name = "cursor" /\ op.cx = cx /\ op.cy = cy)]
        /\ UNCHANGED <<pane, clients, calls>>

\* region_set(u, l) with any region; the region is recorded, with whether the
\* call before had the same region.
RegionSetAny ==
    /\ Started
    /\ \E reg \in {<<0, tty.sy - 1>>, <<0, 1>>, <<1, 1>>, <<1, tty.sy - 1>>} :
        /\ tty' = tty_region(Fresh(tty), reg[1], reg[2])
        /\ rt' = RtFeed(rt, tty'.out, <<0, 0>>)
        /\ op' = [name |-> "region", rupper |-> reg[1], rlower |-> reg[2],
                  again |-> (/\ op.name = "region"
                             /\ op.rupper = reg[1] /\ op.rlower = reg[2])]
        /\ UNCHANGED <<pane, clients, calls>>

\* update_mode(mode, screen), the screen asking for a cursor colour or none.
UpdateMode ==
    /\ Started
    /\ \E mode \in {{}, {"CURSOR"}, {"CURSOR", "BRACKETPASTE"}} : \E cc \in {"", "red"} :
        /\ tty' = tty_update_mode(Fresh(tty), mode, [pane.screen EXCEPT !.ccolour = cc])
        /\ Done("update_mode", <<0, 0>>)

\* A cell written into the last column: the shadow cursor is then past it.
CellAtEdge ==
    /\ Started
    /\ tty.cx = tty.sx - 1
    /\ \E gc \in {CellA, CellQ} :
        /\ tty' = tty_cell(Fresh(tty), gc, pane)
        /\ Done("cell_put", <<0, 0>>)

\* The cursor mover and the region setter from every shadow state.
NextShadow == Start \/ CursorToAny \/ RegionSetAny \/ CellAtEdge \/ CmdRawString

SpecShadow == Init /\ [][NextShadow]_vars

\* The lifecycle: start, stop and resize, between operations that move the
\* shadow cursor, the shadow region, the shadow cell and the mode.
NextLife ==
    \/ Start \/ Stop \/ Resize \/ CursorTo \/ RegionSet \/ CellAtEdge \/ UpdateMode

SpecLife == Init /\ [][NextLife]_vars

\* Start, resize and every command handler.
NextRegion ==
    \/ Start \/ Resize \/ RegionSet
    \/ CmdInsertCharacter \/ CmdDeleteCharacter \/ CmdClearCharacter
    \/ CmdInsertLine \/ CmdDeleteLine
    \/ CmdClearLine \/ CmdClearEndOfLine \/ CmdClearStartOfLine
    \/ CmdReverseIndex \/ CmdLineFeed
    \/ CmdClearEndOfScreen \/ CmdClearStartOfScreen \/ CmdClearScreen
    \/ CmdAlignmentTest \/ CmdCell \/ CmdUtf8Character \/ CmdSetSelection
    \/ CmdRawString

SpecRegion == Init /\ [][NextRegion]_vars

(***************************************************************************)
(* The colour downgrade and the default-colour resolver on their own.      *)
(***************************************************************************)
\* Colours a cell may ask for: the default, one of the 8, aixterm bright ones,
\* palette entries (a dark one, a bright one, bright red), RGB red and blue.
ColourValues ==
    {8, 1, 91, 97, COLOUR_FLAG_256 + 3, COLOUR_FLAG_256 + 9, COLOUR_FLAG_256 + 196,
     COLOUR_FLAG_RGB + 16711680, COLOUR_FLAG_RGB + 255}

ColourCells ==
    {Cell(97, 1, 1, attr, fg, bg, {}) :
        attr \in {{}, {"BRIGHT"}}, fg \in ColourValues, bg \in ColourValues}

\* The terminals: their description and the 256-colour flag the user forces.
ColourTerms ==
    {[term |-> "full", term_flags |-> {}],
     [term |-> "full", term_flags |-> {"256COLOURS"}],
     [term |-> "c16", term_flags |-> {}],
     [term |-> "c256", term_flags |-> {}],
     [term |-> "rgb", term_flags |-> {}]}

\* Panes with and without a style of their own, active or not, in windows
\* with and without window-active-style and window-style; a window flagged
\* WINDOW_STYLECHANGED has not copied the options yet.
StylePanes ==
    {[Pane(0, 0, MaxX, MaxY, DefaultStyle) EXCEPT
        !.colgc = colgc, !.active = active,
        !.window = [id |-> 0, flags |-> IF changed THEN {"STYLECHANGED"} ELSE {},
                    style |-> IF changed THEN DefaultStyle ELSE wgc,
                    active_style |-> IF changed THEN DefaultStyle ELSE agc,
                    options |-> [style |-> wgc, active_style |-> agc]]] :
        colgc \in {DefaultStyle, [fg |-> 2, bg |-> 8], [fg |-> 8, bg |-> 5]},
        active \in BOOLEAN,
        agc \in {DefaultStyle, [fg |-> 3, bg |-> 8], [fg |-> 8, bg |-> 6]},
        wgc \in {DefaultStyle, [fg |-> 4, bg |-> 7]},
        changed \in BOOLEAN}

InitColour ==
    /\ \E ct \in ColourTerms :
        tty = [tty_init(ct.term, FALSE, MaxX, MaxY) EXCEPT !.term_flags = ct.term_flags]
    /\ pane = Pane(0, 0, MaxX, MaxY, DefaultStyle)
    /\ rt = RtInit(tty)
    /\ op = OpRec("init")
    /\ clients = <<>>
    /\ calls = <<>>

InitStyle ==
    /\ tty = tty_init("full", FALSE, MaxX, MaxY)
    /\ pane \in StylePanes
    /\ rt = RtInit(tty)
    /\ op = OpRec("init")
    /\ clients = <<>>
    /\ calls = <<>>

\* The cells a check is applied to: a cell nothing was applied to, or the
\* result of the check before, with the cell it started as and the checks it
\* has been through.
CheckInputs ==
    {[gc |-> c, orig |-> c, before |-> {}] : c \in ColourCells}
        \cup (IF op.name \in {"check_fg", "check_bg"}
              THEN {[gc |-> op.res, orig |-> op.orig, before |-> op.before \cup {op.name}]}
              ELSE {})

CheckFg ==
    /\ \E in \in CheckInputs :
        op' = [name |-> "check_fg", gc |-> in.gc, orig |-> in.orig, before |-> in.before,
               res |-> tty_check_fg(tty, in.gc)]
    /\ UNCHANGED <<tty, rt, pane, clients, calls>>

CheckBg ==
    /\ \E in \in CheckInputs :
        op' = [name |-> "check_bg", gc |-> in.gc, orig |-> in.orig, before |-> in.before,
               res |-> tty_check_bg(tty, in.gc)]
    /\ UNCHANGED <<tty, rt, pane, clients, calls>>

\* default_colours(cell, pane): the window is left with its styles copied.
DefaultColours ==
    /\ \E fg \in {8, 1} : \E bg \in {8, 1} : \E gc \in {Cell(97, 1, 1, {}, fg, bg, {})} :
        op' = [name |-> "default_colours", gc |-> gc, wp |-> pane,
               res |-> tty_default_colours(gc, pane)]
    /\ pane' = [pane EXCEPT !.window = window_after_default_colours(@)]
    /\ UNCHANGED <<tty, rt, clients, calls>>

\* set-option window-style / window-active-style: the options change and the
\* window is flagged.
SetStyle ==
    /\ \E agc \in {DefaultStyle, [fg |-> 3, bg |-> 8]} : \E wgc \in {DefaultStyle, [fg |-> 4, bg |-> 7]} :
        pane' = [pane EXCEPT !.window.options = [style |-> wgc, active_style |-> agc],
                             !.window.flags = @ \cup {"STYLECHANGED"}]
    /\ op' = OpRec("set_style")
    /\ UNCHANGED <<tty, rt, clients, calls>>

NextColour == CheckFg \/ CheckBg

SpecColour == InitColour /\ [][NextColour]_vars

NextStyle == DefaultColours \/ SetStyle

SpecStyle == InitStyle /\ [][NextStyle]_vars

(***************************************************************************)
(* The line painter on its own.                                            *)
(***************************************************************************)
\* Screens whose first line is full and wrapped: every line so; the second
\* line short; the second line empty.
GridWrapShort(w, h) ==
    [i \in 1..h |-> IF i = 1 THEN LineFull(w) ELSE IF i = 2 THEN LineShort ELSE LineEmpty]
GridWrapEmpty(w, h) ==
    [i \in 1..h |-> IF i = 1 THEN LineFull(w) ELSE IF i = 2 THEN LineEmpty ELSE LineShort]
DrawGrids(p) ==
    {Gf(p), Gm(p), GridWrapShort(p.sx, p.sy), GridWrapEmpty(p.sx, p.sy)}

\* A full terminal, one that wraps early, one without BCE and HOME, and a
\* full terminal with a pane narrower and shorter than the terminal.
DrawWorlds ==
    {[term |-> "full", utf8 |-> TRUE, pane |-> Pane(0, 0, MaxX, MaxY, DefaultStyle)],
     [term |-> "early", utf8 |-> TRUE, pane |-> Pane(0, 0, MaxX, MaxY, DefaultStyle)],
     [term |-> "nobce", utf8 |-> FALSE,
      pane |-> Pane(0, 0, MaxX, MaxY, [fg |-> 8, bg |-> 4])],
     [term |-> "full", utf8 |-> TRUE,
      pane |-> Pane(1, 1, MaxX - 1, MaxY - 1, DefaultStyle)]}

InitDraw ==
    \E w \in DrawWorlds :
        /\ tty = tty_init(w.term, w.utf8, MaxX, MaxY)
        /\ rt = RtInit(tty)
        /\ pane = w.pane
        /\ op = OpRec("init")
        /\ clients = <<>>
        /\ calls = <<>>

\* What is recorded of the draw_line before: its row, its screen, its bytes.
DrawBefore ==
    IF op.name = "draw_line" THEN [drawn |-> TRUE, py |-> op.py, s |-> op.s, out |-> tty.out]
    ELSE [drawn |-> FALSE]

\* draw_line(pane's screen, py, pane.xoff, pane.yoff); the row, the screen, the
\* offsets, the shadow cursor the call found and the draw_line before it are
\* recorded.
DrawLine ==
    /\ Started
    /\ \E g \in DrawGrids(pane) : \E reg \in {Full(pane), <<0, 0>>} :
       \E py \in 0..(pane.sy - 1) : \E wp \in {WithScreen(pane, g, reg[1], reg[2])} :
        /\ tty' = tty_draw_line(Fresh(tty), wp, wp.screen, py, pane.xoff, pane.yoff)
        /\ rt' = RtFeed(rt, tty'.out, <<0, 0>>)
        /\ op' = [name |-> "draw_line", py |-> py, s |-> wp.screen,
                  ox |-> pane.xoff, oy |-> pane.yoff, cx |-> tty.cx, cy |-> tty.cy,
                  before |-> DrawBefore]
        /\ UNCHANGED <<pane, clients, calls>>

NextDraw == Start \/ CursorTo \/ DrawLine

SpecDraw == InitDraw /\ [][NextDraw]_vars

(***************************************************************************)
(* The raw write on its own, one write(2) at a time.                       *)
(***************************************************************************)
\* The longest string handed to tty_raw.
MaxRawLen == 3
\* for (i = 0; i < 5; i++)
RawTries == 5

\* The strings handed to tty_raw: the prefixes of "abc", the empty one included.
RawStrings == {SubSeq(<<97, 98, 99>> \o [k \in 1..MaxRawLen |-> 100], 1, l) : l \in 0..MaxRawLen}

\* What write(fd, s, slen) answers: the number of bytes it took, or -1 with
\* errno EAGAIN, or -1 with another errno.
WriteResults(slen) ==
    {[n |-> k, errno |-> "none"] : k \in 0..slen}
        \cup {[n |-> -1, errno |-> "EAGAIN"], [n |-> -1, errno |-> "EIO"]}

\* slen = strlen(s); i = 0; every attempt is recorded with the bytes it was
\* handed and what write answered.
RawEnter(str) ==
    [name |-> "raw", pc |-> "write", str |-> str, s |-> str, i |-> 0, writes |-> <<>>]

RawAttempt_mut(st, w) ==
    IF w.n >= 0
    THEN IF w.n = Len(st.s)
         THEN [st EXCEPT !.s = <<>>, !.pc = "done"]
         ELSE [st EXCEPT !.i = @ + 1, !.pc = IF st.i + 1 < RawTries THEN "write" ELSE "done"]
    ELSE IF w.n = -1 /\ w.errno # "EAGAIN" THEN [st EXCEPT !.pc = "done"]
    ELSE [st EXCEPT !.i = @ + 1, !.pc = IF st.i + 1 < RawTries THEN "write" ELSE "done"]

\* One turn of the loop after n = write(tty->fd, s, slen): s += n, slen -= n
\* and break when slen == 0; break on an error other than EAGAIN; else
\* usleep(100), i++ and the loop test.
RawAttempt(st, w) ==
    IF w.n >= 0
    THEN IF w.n = Len(st.s)
         THEN [st EXCEPT !.s = <<>>, !.pc = "done"]
         ELSE [st EXCEPT !.s = SubSeq(@, w.n + 1, Len(@)), !.i = @ + 1,
                         !.pc = IF st.i + 1 < RawTries THEN "write" ELSE "done"]
    ELSE IF w.n = -1 /\ w.errno # "EAGAIN" THEN [st EXCEPT !.pc = "done"]
    ELSE [st EXCEPT !.i = @ + 1, !.pc = IF st.i + 1 < RawTries THEN "write" ELSE "done"]

\* The bytes a write took, as they reach the terminal.
RawTaken(s, w) == [k \in 1..w.n |-> Tok("CH", s[k], 1)]

\* raw(bytes) is entered; no other call is in its loop.
RawCall ==
    /\ op.name = "raw" => op.pc = "done"
    /\ \E str \in RawStrings :
        /\ tty' = Fresh(tty)
        /\ op' = RawEnter(str)
        /\ UNCHANGED <<rt, pane, clients, calls>>

\* One write(2) of the loop, with any answer the system call can give.
RawWrite ==
    /\ op.name = "raw" /\ op.pc = "write"
    /\ \E w \in WriteResults(Len(op.s)) :
        /\ tty' = [tty EXCEPT !.out = @ \o RawTaken(op.s, w)]
        /\ rt' = RtFeed(rt, RawTaken(op.s, w), <<0, 0>>)
        /\ op' = [RawAttempt(op, w) EXCEPT
                     !.writes = Append(@, [buf |-> op.s, n |-> w.n, errno |-> w.errno])]
        /\ UNCHANGED <<pane, clients, calls>>

NextRaw == RawCall \/ RawWrite

SpecRaw == Init /\ [][NextRaw]_vars


(***************************************************************************)
(* The mode updater on its own, with the mouse modes.                      *)
(***************************************************************************)
\* The modes asked for: the cursor, the keypad and the two mouse modes.
ModeRequests == SUBSET {"CURSOR", "KKEYPAD", "MOUSE_STANDARD", "MOUSE_BUTTON"}

\* update_mode(mode, screen) with TTY_NOCURSOR set or clear; the mode asked
\* for, the flag and the shadow mode the call found are recorded.
UpdateModeAny ==
    /\ Started
    /\ \E mode \in ModeRequests : \E nocursor \in BOOLEAN :
        /\ tty' = tty_update_mode(
                     [Fresh(tty) EXCEPT !.flags = IF nocursor THEN @ \cup {"NOCURSOR"}
                                                  ELSE @ \ {"NOCURSOR"}],
                     mode, pane.screen)
        /\ rt' = RtFeed(rt, tty'.out, <<0, 0>>)
        /\ op' = [name |-> "update_mode", mode |-> mode, nocursor |-> nocursor,
                  old |-> tty.mode]
        /\ UNCHANGED <<pane, clients, calls>>

NextMode == Start \/ UpdateModeAny

SpecMode == Init /\ [][NextMode]_vars

(***************************************************************************)
(* The output sink and its log on their own.                               *)
(***************************************************************************)
\* The emissions one log is followed for.
MaxLog == 3

\* The string tty_acs_get returns for a translated character: the UTF-8
\* line-drawing sequence on a UTF-8 terminal, else the terminal's own acsc
\* entry, which maps the character to itself.
AcsString(t, ch) ==
    IF "UTF8" \in t.flags
    THEN <<Tok("CH", 226, 1), Tok("CH", 148, 1), Tok("CH", 128, 1)>>
    ELSE <<Tok("CH", ch, 1)>>

\* What one emission appends to the output buffer (bufferevent_write): the
\* string of tty_puts and tty_putn as it is, the byte of tty_putc or its
\* ACS translation.
BufferWrite(t, tok) == IF tok.k = "ACS" THEN AcsString(t, tok.a) ELSE <<tok>>

\* What the same emission writes to tty_log_fd: the string of tty_puts and
\* tty_putn as it is, the byte ch of tty_putc.
LogWrite(tok) == IF tok.k = "ACS" THEN <<Tok("CH", tok.a, 1)>> ELSE <<tok>>

RECURSIVE BufferBytes(_, _)
BufferBytes(t, out) ==
    IF out = <<>> THEN <<>> ELSE BufferWrite(t, Head(out)) \o BufferBytes(t, Tail(out))
RECURSIVE LogBytes(_)
LogBytes(out) == IF out = <<>> THEN <<>> ELSE LogWrite(Head(out)) \o LogBytes(Tail(out))

\* The buffer, the log and the number of emissions so far.
LogSoFar == IF "log" \in DOMAIN op THEN op ELSE [buf |-> <<>>, log |-> <<>>, n |-> 0]
\* A buffered emission is recorded: its bytes join the buffer and the log.
Logged(name) ==
    /\ rt' = RtFeed(rt, tty'.out, <<0, 0>>)
    /\ op' = [name |-> name, n |-> LogSoFar.n + 1,
              buf |-> LogSoFar.buf \o BufferBytes(tty', tty'.out),
              log |-> LogSoFar.log \o LogBytes(tty'.out)]
    /\ UNCHANGED <<pane, clients, calls>>

\* puts(string)
LogPuts ==
    /\ LogSoFar.n < MaxLog
    /\ \E k \in {"2004h", "1006h"} :
        /\ tty' = tty_puts(Fresh(tty), Tok(k, 0, 0))
        /\ Logged("puts")

\* putc(byte): a letter, a line-drawing character, a line feed.
LogPutc ==
    /\ LogSoFar.n < MaxLog
    /\ \E ch \in {97, 113, 10} :
        /\ tty' = tty_putc(Fresh(tty), ch)
        /\ Logged("putc")

\* putn(bytes, width)
LogPutn ==
    /\ LogSoFar.n < MaxLog
    /\ tty' = tty_putn(Fresh(tty), CellWide.data.ch, CellWide.data.width)
    /\ Logged("putn")

\* attributes(cell): the charset attribute switched on or off.
LogAttributes ==
    /\ LogSoFar.n < MaxLog
    /\ \E gc \in {grid_default_cell, CellQ} :
        /\ tty' = tty_attributes(Fresh(tty), gc, pane)
        /\ Logged("attributes")

\* raw(string): the bytes reach the terminal; neither the output buffer nor
\* the log is written.
LogRaw ==
    /\ LogSoFar.n < MaxLog
    /\ tty' = tty_raw(Fresh(tty), "RMCUP")
    /\ rt' = RtFeed(rt, tty'.out, <<0, 0>>)
    /\ op' = [LogSoFar EXCEPT !.n = @ + 1] @@ [name |-> "raw"]
    /\ UNCHANGED <<pane, clients, calls>>

NextLog == LogPuts \/ LogPutc \/ LogPutn \/ LogAttributes \/ LogRaw

SpecLog == Init /\ [][NextLog]_vars

(***************************************************************************)
(* The cursor mover on a larger terminal.                                  *)
(***************************************************************************)
\* Columns and rows of the terminal the cursor mover is followed on.
CurX == 7
CurY == 5

CursorTerms == {"full", "novpa", "nohpa", "basic"}

InitCursor ==
    \E term \in CursorTerms :
        /\ tty = tty_init(term, TRUE, CurX, CurY)
        /\ rt = RtInit(tty)
        /\ pane = Pane(0, 0, CurX, CurY, DefaultStyle)
        /\ op = OpRec("init")
        /\ clients = <<>>
        /\ calls = <<>>

\* cursor_to(cx, cy) with every target, the column past the last included;
\* the target and the shadow cursor and region the call found are recorded.
CursorMove ==
    /\ Started
    /\ \E cx \in 0..tty.sx : \E cy \in 0..(tty.sy - 1) :
        /\ tty' = tty_cursor(Fresh(tty), cx, cy)
        /\ rt' = RtFeed(rt, tty'.out, <<0, 0>>)
        /\ op' = [name |-> "cursor_to", cx |-> cx, cy |-> cy,
                  from |-> [cx |-> tty.cx, cy |-> tty.cy,
                            rupper |-> tty.rupper, rlower |-> tty.rlower]]
        /\ UNCHANGED <<pane, clients, calls>>

\* region_set(u, l): the whole screen, its middle, its top, its bottom.
RegionMove ==
    /\ Started
    /\ \E reg \in {<<0, tty.sy - 1>>, <<1, tty.sy - 2>>, <<0, 2>>, <<2, tty.sy - 1>>} :
        /\ tty' = tty_region(Fresh(tty), reg[1], reg[2])
        /\ rt' = RtFeed(rt, tty'.out, <<0, 0>>)
        /\ op' = [name |-> "region", rupper |-> reg[1], rlower |-> reg[2]]
        /\ UNCHANGED <<pane, clients, calls>>

NextCursor == Start \/ CursorMove \/ RegionMove \/ CellAtEdge

SpecCursor == InitCursor /\ [][NextCursor]_vars

(***************************************************************************)
(* The attribute engine across the terminals' capabilities.                *)
(***************************************************************************)
SgrAttrs ==
    {{}, {"BRIGHT"}, {"BRIGHT", "UNDERSCORE"}, {"REVERSE"}, {"CHARSET"},
     {"ITALICS", "BLINK"}, {"DIM", "HIDDEN"}}
SgrColours == {<<8, 8>>, <<1, 8>>, <<8, 4>>, <<1, 4>>, <<7, 4>>}
SgrCells == {Cell(97, 1, 1, a, c[1], c[2], {}) : a \in SgrAttrs, c \in SgrColours}

\* A UTF-8 terminal and terminals without AX, without SETAB, without SETAB
\* and REV, and a minimal one.
SgrWorlds ==
    {[term |-> "full", utf8 |-> TRUE], [term |-> "noax", utf8 |-> FALSE],
     [term |-> "nosetab", utf8 |-> FALSE], [term |-> "norev", utf8 |-> FALSE],
     [term |-> "basic", utf8 |-> FALSE]}

InitSgr ==
    \E w \in SgrWorlds :
        /\ tty = tty_init(w.term, w.utf8, MaxX, MaxY)
        /\ rt = RtInit(tty)
        /\ pane = Pane(0, 0, MaxX, MaxY, DefaultStyle)
        /\ op = OpRec("init")
        /\ clients = <<>>
        /\ calls = <<>>

\* attributes(cell, pane); the cell, the effective desired cell gc2 and the
\* shadow cell the call found are recorded.
AttributesAny ==
    /\ Started
    /\ \E gc \in SgrCells :
        /\ tty' = tty_attributes(Fresh(tty), gc, pane)
        /\ rt' = RtFeed(rt, tty'.out, <<0, 0>>)
        /\ op' = [name |-> "attributes", gc |-> gc,
                  gc2 |-> CellSGR(EffectiveCell(tty, gc, pane)), tc |-> tty.cell]
        /\ UNCHANGED <<pane, clients, calls>>

NextSgr == Start \/ AttributesAny

SpecSgr == InitSgr /\ [][NextSgr]_vars

(***************************************************************************)
(* The scroll handlers and the region redraw on a taller terminal.         *)
(***************************************************************************)
\* Columns and rows of the terminal the scroll handlers are followed on.
ScrX == 3
ScrY == 5

\* A full terminal, one that wraps early, one without BCE under a coloured
\* window-style and a minimal one, each with a pane that fills it, and a full
\* terminal with a pane narrower and shorter than the terminal.
ScrollWorlds ==
    {[term |-> "full", pane |-> Pane(0, 0, ScrX, ScrY, DefaultStyle)],
     [term |-> "early", pane |-> Pane(0, 0, ScrX, ScrY, DefaultStyle)],
     [term |-> "nobce", pane |-> Pane(0, 0, ScrX, ScrY, [fg |-> 8, bg |-> 4])],
     [term |-> "basic", pane |-> Pane(0, 0, ScrX, ScrY, DefaultStyle)],
     [term |-> "full", pane |-> Pane(1, 1, ScrX - 1, ScrY - 1, DefaultStyle)]}

InitScroll ==
    \E w \in ScrollWorlds :
        /\ tty = tty_init(w.term, FALSE, ScrX, ScrY)
        /\ rt = RtInit(tty)
        /\ pane = w.pane
        /\ op = OpRec("init")
        /\ clients = <<>>
        /\ calls = <<>>

\* The scroll regions of pane p: the whole pane, three rows, two rows.
ScrollRegions(p) == {<<0, p.sy - 1>>, <<1, 3>>, <<1, 2>>}
\* The contexts of pane p with every region and every cursor row.
ScrollCtxs(p, ocx, nums) ==
    {Ctx(p, Gf(p), reg, ocx, ocy, num) :
        reg \in ScrollRegions(p), ocy \in 0..(p.sy - 1), num \in nums}

\* The tty as a handler finds it: nothing written yet.
Before(t) == [t EXCEPT !.out = <<>>]

\* What is recorded of a scroll operation: its context and the tty it found.
ScrollDone(name, c) ==
    /\ rt' = RtFeed(rt, tty'.out, <<0, 0>>)
    /\ op' = [name |-> name, ctx |-> c, from |-> Before(tty)]
    /\ UNCHANGED <<pane, clients, calls>>

LineFeedAny ==
    /\ Started
    /\ \E c \in ScrollCtxs(pane, pane.sx - 1, {0, 1}) :
        /\ tty' = tty_cmd_linefeed(Before(tty), c)
        /\ ScrollDone("linefeed", c)

ReverseIndexAny ==
    /\ Started
    /\ \E c \in ScrollCtxs(pane, 0, {0}) :
        /\ tty' = tty_cmd_reverseindex(Before(tty), c)
        /\ ScrollDone("reverseindex", c)

RedrawRegionAny ==
    /\ Started
    /\ \E c \in ScrollCtxs(pane, 0, {0}) :
        /\ tty' = tty_redraw_region(Before(tty), c)
        /\ ScrollDone("redraw_region", c)

NextScroll ==
    \/ Start \/ RegionSet
    \/ LineFeedAny \/ ReverseIndexAny \/ RedrawRegionAny

SpecScroll == InitScroll /\ [][NextScroll]_vars


(***************************************************************************)
(* The raw string handler from every shadow attribute state.               *)
(***************************************************************************)
\* The strings handed to rawstring: ESC q, a line-drawing character alone, a
\* letter before one.
RawStringInputs == {<<27, 113>>, <<113>>, <<97, 113>>}

\* attributes(cell): the charset attribute switched on or off.
AttributesCharset ==
    /\ Started
    /\ \E gc \in {grid_default_cell, CellQ} :
        /\ tty' = tty_attributes(Fresh(tty), gc, pane)
        /\ Done("attributes", <<0, 0>>)

\* rawstring(ptr, num); the string and the shadow cell the call found are recorded.
RawStringAny ==
    /\ Started
    /\ \E str \in RawStringInputs :
       \E c \in {[CtxIn(pane, In(Gf(pane), Full(pane), 0, 0, Len(str))) EXCEPT !.ptr = str]} :
        /\ tty' = tty_cmd_rawstring(Fresh(tty), c)
        /\ rt' = RtFeed(rt, tty'.out, <<0, 0>>)
        /\ op' = [name |-> "rawstring", ptr |-> str, num |-> c.num, tc |-> tty.cell]
        /\ UNCHANGED <<pane, clients, calls>>

NextRawString == Start \/ CursorTo \/ RegionSet \/ AttributesCharset \/ RawStringAny

SpecRawString == Init /\ [][NextRawString]_vars


(***************************************************************************)
(* The cell handler on full-width and on partial-width panes.              *)
(***************************************************************************)
\* A UTF-8 terminal and one that wraps early with a pane that fills them, a
\* full-width pane below the first row, and panes narrower than the terminal
\* away from the origin and at it.
CellWorlds ==
    {[term |-> "full", utf8 |-> TRUE, pane |-> Pane(0, 0, MaxX, MaxY, DefaultStyle)],
     [term |-> "early", utf8 |-> FALSE, pane |-> Pane(0, 0, MaxX, MaxY, DefaultStyle)],
     [term |-> "full", utf8 |-> FALSE, pane |-> Pane(0, 1, MaxX, MaxY - 1, DefaultStyle)],
     [term |-> "full", utf8 |-> TRUE, pane |-> Pane(1, 1, MaxX - 1, MaxY - 1, DefaultStyle)],
     [term |-> "full", utf8 |-> FALSE, pane |-> Pane(0, 0, MaxX - 1, MaxY, DefaultStyle)]}

InitCell ==
    \E w \in CellWorlds :
        /\ tty = tty_init(w.term, w.utf8, MaxX, MaxY)
        /\ rt = RtInit(tty)
        /\ pane = w.pane
        /\ op = OpRec("init")
        /\ clients = <<>>
        /\ calls = <<>>

\* The contexts of cmd_cell for pane p: the region is the whole pane or all
\* but its last row, the cursor is on any row and in the first column, the
\* last one or past it, and the cell and the cell before it are narrow or wide.
CellCtxs(p) ==
    {[Ctx(p, Gf(p), reg, ocx, ocy, 0) EXCEPT !.cell = gc, !.last_cell = last] :
        reg \in {Full(p), <<0, p.sy - 2>>}, ocx \in {0, p.sx - 1, p.sx},
        ocy \in 0..(p.sy - 1), gc \in {CellA, CellWide}, last \in {CellA, CellWide}}

\* cmd_cell(ctx); the context and the tty the handler found are recorded.
CmdCellAny ==
    /\ Started
    /\ Positioned
    /\ \E c \in CellCtxs(pane) :
        /\ tty' = tty_cmd_cell(Before(tty), c)
        /\ ScrollDone("cell", c)

NextCell == Start \/ CellAtEdge \/ CmdCellAny

SpecCell == InitCell /\ [][NextCell]_vars


(***************************************************************************)
(* The cell emitter on terminals that wrap early.                          *)
(***************************************************************************)
\* Terminals that wrap early, with and without UTF-8, and one that does not.
PutWorlds ==
    {[term |-> "early", utf8 |-> TRUE], [term |-> "early", utf8 |-> FALSE],
     [term |-> "full", utf8 |-> TRUE]}

InitPut ==
    \E w \in PutWorlds :
        /\ tty = tty_init(w.term, w.utf8, MaxX, MaxY)
        /\ rt = RtInit(tty)
        /\ pane = Pane(0, 0, MaxX, MaxY, DefaultStyle)
        /\ op = OpRec("init")
        /\ clients = <<>>
        /\ calls = <<>>

\* cell_put(cell) with a letter, a line-drawing character, a wide character
\* and a padding cell; the cell, the tty and the terminal the call found are
\* recorded.
CellPutAny ==
    /\ Started
    /\ Positioned
    /\ \E gc \in {CellA, CellQ, CellWide, CellPad} :
        /\ tty' = tty_cell(Before(tty), gc, pane)
        /\ rt' = RtFeed(rt, tty'.out, <<0, 0>>)
        /\ op' = [name |-> "cell_put", gc |-> gc, from |-> Before(tty), rt0 |-> rt]
        /\ UNCHANGED <<pane, clients, calls>>

NextPut == Start \/ CursorToAny \/ CellPutAny

SpecPut == InitPut /\ [][NextPut]_vars


(***************************************************************************)
(* The line painter and the cursor's visibility.                           *)
(***************************************************************************)
\* draw_line(pane's screen, py, pane.xoff, pane.yoff); the row and the tty the
\* call found are recorded.
DrawLineAny ==
    /\ Started
    /\ \E g \in {Gf(pane), Gm(pane)} : \E py \in 0..(pane.sy - 1) :
       \E wp \in {WithScreen(pane, g, 0, pane.sy - 1)} :
        /\ tty' = tty_draw_line(Before(tty), wp, wp.screen, py, pane.xoff, pane.yoff)
        /\ rt' = RtFeed(rt, tty'.out, <<0, 0>>)
        /\ op' = [name |-> "draw_line", py |-> py, from |-> Before(tty)]
        /\ UNCHANGED <<pane, clients, calls>>

NextVisible == Start \/ UpdateModeAny \/ DrawLineAny

SpecVisible == InitDraw /\ [][NextVisible]_vars


(***************************************************************************)
(* Open, stop, close and free.  The tty has, besides its shadow, its file  *)
(* descriptor fd, its bufferevent event and its capability table desc      *)
(* (tty->term): "null" before the first open, "live" once allocated,       *)
(* "freed" after their release; rel is what the last call released, twice  *)
(* says that something was released that had been released before, crashed *)
(* that a call went through a null tty->term, freed that tty_free has run. *)
(***************************************************************************)
\* The descriptor tty_init is given.
TtyFd == 3

\* tty_init: the struct is zeroed, fd is set; nothing is open.
OpenInit(term) ==
    [fd |-> TtyFd, event |-> "null", desc |-> "null", rel |-> {}, twice |-> FALSE,
     crashed |-> FALSE, freed |-> FALSE] @@ tty_init(term, FALSE, MaxX, MaxY)

\* if (tty->flags & TTY_OPENED) { bufferevent_free; tty_term_free; tty_keys_free; ... }
CloseOpened(t) ==
    IF "OPENED" \in t.flags
    THEN [t EXCEPT !.twice = @ \/ t.event = "freed" \/ t.desc = "freed",
                   !.event = "freed", !.desc = "freed",
                   !.rel = @ \cup {"event", "term"},
                   !.flags = @ \ {"OPENED"}]
    ELSE t

\* if (tty->fd != -1) { close(tty->fd); tty->fd = -1; }
CloseFd(t) ==
    IF t.fd # -1 THEN [t EXCEPT !.fd = -1, !.rel = @ \cup {"fd"}] ELSE t

\* A close that leaves TTY_OPENED set.
tty_close_mut(t, ok) ==
    CloseFd([CloseOpened(tty_stop_tty(t, ok)) EXCEPT !.flags = t.flags \ {"STARTED"}])

\* tty_close; ok is as for tty_stop_tty.  A started tty whose tty->term is
\* not live has tty_stop_tty read the capabilities through it once the size
\* query and the line-discipline restore have succeeded: the call does not
\* return.
tty_close(t, ok) ==
    IF "STARTED" \in t.flags /\ t.desc # "live" /\ ok
    THEN [t EXCEPT !.flags = @ \ {"STARTED"}, !.crashed = TRUE]
    ELSE CloseFd(CloseOpened(tty_stop_tty(t, ok)))

\* tty_open; found says whether tty_term_find found the terminal's description.
tty_open(t, found, ok) ==
    IF ~found THEN tty_close([t EXCEPT !.desc = "null"], ok)
    ELSE tty_start_tty([t EXCEPT !.desc = "live", !.event = "live",
                                 !.flags = (@ \cup {"OPENED"}) \ {"NOCURSOR", "FREEZE", "TIMER"}])

\* tty_free: tty_close, then ccolour and termname are freed.
tty_free(t, ok) ==
    [tty_close(t, ok) EXCEPT !.freed = ~tty_close(t, ok).crashed]

InitOpen ==
    \E term \in {"full", "basic", "nobce"} :
        /\ tty = OpenInit(term)
        /\ rt = RtInit(tty)
        /\ pane = Pane(0, 0, MaxX, MaxY, DefaultStyle)
        /\ op = OpRec("init")
        /\ clients = <<>>
        /\ calls = <<>>

\* The tty is there to be called on.
Alive == ~tty.crashed /\ ~tty.freed
\* The tty as a lifecycle call finds it: nothing written or released yet.
BeforeCall(t) == [t EXCEPT !.out = <<>>, !.wpflags = {}, !.rel = {}]
\* The size query and the restore of the line discipline can only succeed on
\* an open descriptor.
Oks == IF tty.fd = -1 THEN {FALSE} ELSE BOOLEAN
\* What is recorded of a lifecycle call: its name, and whether the call
\* before it was a close.
LifeDone(name) ==
    /\ rt' = RtFeed(rt, tty'.out, <<0, 0>>)
    /\ op' = [name |-> name, closed |-> (op.name = "close")]
    /\ UNCHANGED <<pane, clients, calls>>

Open ==
    /\ Alive
    /\ \E found \in BOOLEAN : \E ok \in Oks :
        /\ tty' = tty_open(BeforeCall(tty), found, ok)
        /\ LifeDone("open")

StopAny ==
    /\ Alive
    /\ \E ok \in Oks :
        /\ tty' = tty_stop_tty(BeforeCall(tty), ok)
        /\ LifeDone("stop")

Close ==
    /\ Alive
    /\ \E ok \in Oks :
        /\ tty' = tty_close(BeforeCall(tty), ok)
        /\ LifeDone("close")

Free ==
    /\ Alive
    /\ \E ok \in Oks :
        /\ tty' = tty_free(BeforeCall(tty), ok)
        /\ LifeDone("free")

\* Between the lifecycle calls the started tty is drawn on.
DrawnOn ==
    /\ Alive
    /\ (CursorTo \/ RegionSet \/ UpdateMode)

NextOpen == Open \/ StopAny \/ Close \/ Free \/ DrawnOn

SpecOpen == InitOpen /\ [][NextOpen]_vars


(***************************************************************************)
(* Properties.                                                             *)
(***************************************************************************)
\* The shadow cursor / the shadow region holds values, not the sentinel.
CursorKnown == tty.cx # UINT_MAX /\ tty.cy # UINT_MAX
RegionKnown == tty.rupper # UINT_MAX /\ tty.rlower # UINT_MAX

\* The command handlers, by the name the operation records.
HandlerOps ==
    {"insertcharacter", "deletecharacter", "clearcharacter", "insertline", "deleteline",
     "clearline", "clearendofline", "clearstartofline", "reverseindex", "linefeed",
     "clearendofscreen", "clearstartofscreen", "clearscreen", "alignmenttest", "cell",
     "utf8character", "setselection", "rawstring"}

\* The kinds of the tokens of an output, and the classes of tokens.
Kinds(out) == {out[i].k : i \in DOMAIN out}
MoveKinds ==
    {"CUP", "HOME", "HPA", "VPA", "CUB1", "CUB", "CUF1", "CUF", "CUU1", "CUU", "CUD1", "CUD"}
AttrKinds ==
    {"SGR0", "BOLD", "DIM", "SITM", "SMSO", "SMUL", "BLINK", "REV", "INVIS", "SMACS",
     "RMACS", "SETAF", "SETAB", "39", "49", "AIX", "38;5", "48;5", "38;2", "48;2"}
EraseKinds ==
    {"EL", "EL1", "ED", "ECH", "IL", "IL1", "DL", "DL1", "ICH", "ICH1", "DCH", "DCH1"}
IsByte(tok) == tok.k \in {"CH", "ACS"}
IsMove(tok) == tok.k \in MoveKinds \/ (IsByte(tok) /\ tok.a \in {10, 13})
IsPrep(tok) == IsMove(tok) \/ tok.k = "CSR" \/ tok.k \in AttrKinds
IsContent(tok) == (IsByte(tok) /\ tok.a \notin {10, 13}) \/ tok.k \in EraseKinds \cup {"RI"}
Moves(out) == SelectSeq(out, IsMove)
\* The pane spans the terminal's whole width.
PaneFullWidth == pane.xoff = 0 /\ pane.sx >= tty.sx
Range(seq) == {seq[i] : i \in DOMAIN seq}

\* C1: on a started terminal, whenever the shadow cursor is not the sentinel,
\* the reference terminal that consumed every emitted byte has its cursor at
\* exactly the shadow (cx, cy); column sx stands for the deferred wrap.
C1_CursorShadowConsistent ==
    (Started /\ CursorKnown) => (rt.x = tty.cx /\ rt.y = tty.cy)

\* C2: when the shadow cursor is the sentinel, the first cursor positioning
\* that cursor_to or region_set emits is CUP or HOME (never \r, \n, CUU/CUD,
\* CUB/CUF, HPA or VPA), and afterwards cx and cy both hold coordinates.
C2_SentinelForcesAbsolute ==
    [][(Started /\ ~CursorKnown /\ op'.name \in {"cursor", "region"}
        /\ Moves(tty'.out) # <<>>)
       => (Head(Moves(tty'.out)).k \in {"CUP", "HOME"} /\ CursorKnown')]_vars

\* C3: while the terminal is started, cx < sx and cy < sy whenever they are
\* not the sentinel.
C3_CursorBounds ==
    Started => /\ tty.cx # UINT_MAX => ULt(tty.cx, tty.sx)
               /\ tty.cy # UINT_MAX => ULt(tty.cy, tty.sy)

\* C5: the shadow region, when it is not the sentinel, is the region the
\* last CSR programmed on the reference terminal; region_set with a region
\* that differs from the shadow emits, on a terminal with CSR,
\* CSR(rupper, rlower) and leaves the shadow region at the request and the
\* shadow cursor at (0,0), and without CSR emits nothing and leaves the shadow
\* region unchanged; region_set with the shadow's region emits nothing.
C5_RegionShadow ==
    /\ []((Started /\ RegionKnown) => (rt.top = tty.rupper /\ rt.bot = tty.rlower))
    /\ [][op'.name = "region" =>
            IF op'.rupper = tty.rupper /\ op'.rlower = tty.rlower
            THEN tty'.out = <<>>
            ELSE IF tty_term_has(tty.term, "CSR")
            THEN /\ Tok("CSR", op'.rupper, op'.rlower) \in Range(tty'.out)
                 /\ tty'.rupper = op'.rupper /\ tty'.rlower = op'.rlower
                 /\ tty'.cx = 0 /\ tty'.cy = 0
            ELSE /\ tty'.out = <<>>
                 /\ tty'.rupper = tty.rupper /\ tty'.rlower = tty.rlower]_vars

\* region_set has programmed a one-row region on a terminal with CSR.
C5_Witness ==
    /\ op.name = "region" /\ op.rupper = 1 /\ op.rlower = 1
    /\ Tok("CSR", 1, 1) \in Range(tty.out)
    /\ rt.top = 1 /\ rt.bot = 1 /\ tty.cx = 0 /\ tty.cy = 0

RECURSIVE LfScrolls(_, _)
LfScrolls(r, out) ==
    IF out = <<>> THEN FALSE
    ELSE \/ IsByte(Head(out)) /\ Head(out).a = 10 /\ r.y = r.bot
         \/ LfScrolls(RtStep(r, Head(out), <<0, 0>>), Tail(out))

\* C7: when the pane is not full width, insertcharacter, deletecharacter,
\* insertline, deleteline, reverseindex and linefeed emit none of ICH/ICH1,
\* DCH/DCH1, IL/IL1, DL/DL1, RI and no line feed that scrolls, and clearline
\* and clearendofline emit no EL.
C7_PartialWidthFallback ==
    [][~PaneFullWidth =>
        /\ op'.name \in {"insertcharacter", "deletecharacter", "insertline", "deleteline",
                         "reverseindex", "linefeed"}
            => /\ Kinds(tty'.out) \cap {"ICH", "ICH1", "DCH", "DCH1", "IL", "IL1", "DL",
                                        "DL1", "RI"} = {}
               /\ ~LfScrolls(rt, tty'.out)
        /\ op'.name \in {"clearline", "clearendofline"} => "EL" \notin Kinds(tty'.out)]_vars

\* linefeed on a pane narrower than the terminal has redrawn the region.
C7_Witness ==
    /\ ~PaneFullWidth /\ op.name = "linefeed"
    /\ Tok("CH", 97, 1) \in Range(tty.out)

\* No attribute, cursor or region token follows a content byte.
Ordered(out) ==
    \A i, j \in DOMAIN out : (i < j /\ IsContent(out[i])) => ~IsPrep(out[j])
\* No content byte follows an attribute, cursor or region token.
BytesFirst(out) ==
    \A i, j \in DOMAIN out : (i < j /\ IsPrep(out[i])) => ~IsContent(out[j])
\* The region is not programmed after a content byte.
RegionFirst(out) ==
    \A i, j \in DOMAIN out : (i < j /\ IsContent(out[i])) => out[j].k # "CSR"

\* C8 as the specification states it: in every command handler (rawstring and
\* cell included) every content byte (cell data, painted spaces, raw bytes,
\* erase/insert/delete primitives) is appended only after the command's
\* attribute reconciliation and its cursor/region positioning.
C8_IntraCommandOrdering ==
    op.name \in HandlerOps => Ordered(tty.out)

\* C8 as the code has it: the handlers that position once (clearline,
\* clearendofline, clearstartofline, clearcharacter, and insertcharacter,
\* deletecharacter, insertline, deleteline and reverseindex when they use the
\* terminal's own primitive) append their content after every attribute,
\* cursor and region token; no handler but rawstring programs the region after
\* a content byte; rawstring appends its bytes first and the attribute reset
\* and the move to (0,0) after them.
C8_OrderingAsCoded ==
    /\ op.name \in {"clearline", "clearendofline", "clearstartofline", "clearcharacter"}
        => Ordered(tty.out)
    /\ (/\ op.name \in {"insertcharacter", "deletecharacter", "insertline", "deleteline",
                        "reverseindex"}
        /\ Kinds(tty.out) \cap {"ICH", "ICH1", "DCH", "DCH1", "IL", "IL1", "DL", "DL1",
                                "RI"} # {})
        => Ordered(tty.out)
    /\ op.name \in HandlerOps \ {"rawstring"} => RegionFirst(tty.out)
    /\ op.name = "rawstring" => BytesFirst(tty.out)

\* rawstring has written its bytes and then moved the cursor home.
C8_Witness ==
    /\ op.name = "rawstring" /\ Len(tty.out) >= 3
    /\ tty.out[1] = Tok("CH", 27, 1)
    /\ IsMove(tty.out[Len(tty.out)])

\* C9: once tty_stop_tty has cleared STARTED on a client's tty, tty_write
\* invokes no handler on that tty until it is started again.
C9_DispatcherSkipsStopped ==
    [][op'.name = "write"
        => \A k \in DOMAIN calls' : ~clients[calls'[k].client].stopped]_vars

\* The clients the specification calls ready for the pane wp, and the
\* invocations it expects of one write: one per ready client, in list order.
ClaimReady(c, wp) ==
    /\ ~c.session.null /\ c.tty.term # "none"
    /\ "SUSPENDED" \notin c.flags /\ "FREEZE" \notin c.tty.flags
    /\ c.session.curw = wp.window.id
RECURSIVE ClaimCalls(_, _, _)
ClaimCalls(cs, wp, i) ==
    IF i > Len(cs) THEN <<>>
    ELSE (IF ClaimReady(cs[i], wp)
          THEN <<[client |-> i, xoff |-> wp.xoff,
                  yoff |-> IF cs[i].status = "top" THEN wp.yoff + 1 ELSE wp.yoff]>>
          ELSE <<>>) \o ClaimCalls(cs, wp, i + 1)
\* tty_write returns before its loop for this pane.
WriteSkipped(wp) ==
    \/ "WINDOW_REDRAW" \in wp.window.flags \/ "PANE_REDRAW" \in wp.flags
    \/ ~wp.visible \/ "PANE_DROP" \in wp.flags

\* C10 as the specification states it: one write on a pane invokes the
\* handler exactly once for each ready client, in clients-list order, never
\* for a client that is not ready, with ctx.xoff = pane.xoff and ctx.yoff =
\* pane.yoff + 1 if that client's status line is on top, else pane.yoff.
C10_MultiClientWrite ==
    [][(op'.name = "write" /\ ~op'.null)
        => /\ calls' = ClaimCalls(clients, pane, 1)
           /\ \A i \in DOMAIN clients :
                ~ClaimReady(clients[i], pane) => clients'[i] = clients[i]]_vars

\* C10 as the code has it: the same, unless the pane's window is flagged for
\* a redraw, the pane is flagged PANE_REDRAW or PANE_DROP, or the pane is not
\* visible; then the write invokes no handler at all.
C10_MultiClientWriteUnlessSkipped ==
    [][(op'.name = "write" /\ ~op'.null)
        => /\ calls' = IF WriteSkipped(pane) THEN <<>> ELSE ClaimCalls(clients, pane, 1)
           /\ \A i \in DOMAIN clients :
                (WriteSkipped(pane) \/ ~ClaimReady(clients[i], pane))
                    => clients'[i] = clients[i]]_vars

\* One write has invoked the handler for two ready clients, the first with
\* the status line on top and the second without.
C10_Witness ==
    /\ op.name = "write" /\ Len(calls) = 2
    /\ calls[1] = [client |-> 1, xoff |-> 0, yoff |-> 1]
    /\ calls[2] = [client |-> 2, xoff |-> 0, yoff |-> 0]
    /\ clients[1].tty.out # <<>> /\ clients[2].tty.out # <<>>

\* The SGR state a terminal shows for the shadow cell: the attribute bits (the
\* alternate character set is a mode of its own), and the colours.
ShadowSGR(t) ==
    [attr |-> t.cell.attr \ {"CHARSET"}, acs |-> "CHARSET" \in t.cell.attr,
     fg |-> NormColour(t.cell.fg), bg |-> NormColour(t.cell.bg)]
\* The effective desired cell of the specification: the default colours
\* resolved, the reverse fallback applied, the foreground downgraded as
\* foregrounds are and the background as backgrounds are.
DesiredCell(t, gc, wp) ==
    [attr |-> tty_check_fg(t, ReverseFallback(t, tty_default_colours(gc, wp))).attr,
     fg |-> tty_check_fg(t, ReverseFallback(t, tty_default_colours(gc, wp))).fg,
     bg |-> tty_check_bg(t, ReverseFallback(t, tty_default_colours(gc, wp))).bg]

\* C4: after every attributes() call the SGR state of the reference terminal
\* (attribute bits, foreground, background) equals the shadow cell, and the
\* shadow cell's attr, fg and bg are those of the effective desired cell.
C4_AttributeShadowConsistent ==
    (Started /\ op.name = "attributes")
        => /\ [attr |-> rt.attr, acs |-> rt.acs, fg |-> rt.fg, bg |-> rt.bg] = ShadowSGR(tty)
           /\ tty.cell = DesiredCell(tty, op.gc, pane)

\* The shadow of the cursor and of the region.
Shadow(t) == <<t.cx, t.cy, t.rupper, t.rlower>>

\* C11: a cursor_to(cx, cy) that directly follows a cursor_to with the same
\* target, clamped or not, emits no bytes and leaves the shadow as it was.
C11_IdempotentCursorTo ==
    [][(op'.name = "cursor" /\ op'.again)
        => (tty'.out = <<>> /\ Shadow(tty') = Shadow(tty))]_vars

\* The second of two cursor_to beyond the last column has found the shadow at
\* the clamped target and emitted nothing.
C11_Witness ==
    /\ op.name = "cursor" /\ op.again /\ op.cx = tty.sx + 1 /\ op.cy = 1
    /\ tty.out = <<>> /\ tty.cx = tty.sx - 1 /\ tty.cy = 1

\* C12: a region_set(u, l) that directly follows a region_set with the same
\* arguments emits no bytes and changes neither the region shadow nor the
\* cursor shadow, on a terminal with CSR and on one without.
C12_IdempotentRegionSet ==
    [][(op'.name = "region" /\ op'.again)
        => (tty'.out = <<>> /\ Shadow(tty') = Shadow(tty))]_vars

\* The second of two region_set on a CSR terminal has found the shadow at the
\* region asked for and emitted nothing.
C12_Witness ==
    /\ op.name = "region" /\ op.again /\ op.rupper = 1 /\ op.rlower = 1
    /\ tty_term_has(tty.term, "CSR")
    /\ tty.out = <<>> /\ tty.rupper = 1 /\ tty.rlower = 1

\* C13: in every state reached by start, resize and the command handlers the
\* shadow region's bounds are both the sentinel or both values, and then
\* rlower >= rupper.
C13_RegionOrdered ==
    /\ (tty.rupper = UINT_MAX) <=> (tty.rlower = UINT_MAX)
    /\ RegionKnown => UGe(tty.rlower, tty.rupper)

\* A handler has set a one-row region on a resized terminal.
C13_Witness ==
    /\ op.name \in HandlerOps /\ tty.sx = MaxX + 1
    /\ RegionKnown /\ tty.rupper = tty.rlower /\ Kinds(tty.out) \cap {"CSR"} # {}

\* The terminal declares 8 colours, has no 256-colour flag of its own or
\* forced by the user, and no direct colour.
Colours8 ==
    /\ Terms[tty.term].colors = 8
    /\ "256COLOURS" \notin Terms[tty.term].flags \cup tty.term_flags
    /\ "TC" \notin Terms[tty.term].caps

\* C14: on such a terminal check_fg rewrites an RGB or palette foreground to
\* one of 0..7, touching no attribute but BRIGHT, check_bg rewrites such a
\* background to one of 0..7 and touches nothing else, both leave 8 as 8, and
\* a check applied to a cell that has been through it already changes nothing.
C14_DowngradeProjection ==
    Colours8 =>
        /\ op.name = "check_fg" =>
            /\ op.gc.fg >= COLOUR_FLAG_256 => op.res.fg \in 0..7
            /\ op.gc.fg = 8 => op.res.fg = 8
            /\ op.res.bg = op.gc.bg
            /\ op.res.attr \ {"BRIGHT"} = op.gc.attr \ {"BRIGHT"}
            /\ "check_fg" \in op.before => op.res = op.gc
        /\ op.name = "check_bg" =>
            /\ op.gc.bg >= COLOUR_FLAG_256 => op.res.bg \in 0..7
            /\ op.gc.bg = 8 => op.res.bg = 8
            /\ op.res.fg = op.gc.fg /\ op.res.attr = op.gc.attr
            /\ "check_bg" \in op.before => op.res = op.gc

\* A cell of palette bright red on RGB blue has become bright 1 on 4 and has
\* gone through check_fg once more unchanged.
C14_Witness ==
    /\ Colours8 /\ op.name = "check_fg" /\ op.before = {"check_fg", "check_bg"}
    /\ op.orig.fg = COLOUR_FLAG_256 + 196 /\ op.orig.bg = COLOUR_FLAG_RGB + 255
    /\ op.orig.attr = {}
    /\ op.res = op.gc /\ op.res.fg = 1 /\ op.res.bg = 4 /\ op.res.attr = {"BRIGHT"}

\* What the resolver is said to choose, and what it is seen to choose, for a
\* component c of a cell, given that component of the pane's style, of the
\* window-active-style and of the window-style.
ResolveStated(c, pgc, active, agc, wgc) ==
    IF c # 8 THEN c ELSE IF pgc # 8 THEN pgc ELSE IF active THEN agc ELSE wgc
ResolveWithFallback(c, pgc, active, agc, wgc) ==
    IF c # 8 THEN c ELSE IF pgc # 8 THEN pgc ELSE IF active /\ agc # 8 THEN agc ELSE wgc

\* C15 as the specification states it: a component equal to 8 becomes the
\* pane's colgc component if that is not 8, else the window-active-style
\* component if the pane is the active pane, else the window-style component;
\* any other component stays.
C15_DefaultColourResolution ==
    op.name = "default_colours" =>
        /\ op.res.fg = ResolveStated(op.gc.fg, op.wp.colgc.fg, op.wp.active,
                                     op.wp.window.options.active_style.fg,
                                     op.wp.window.options.style.fg)
        /\ op.res.bg = ResolveStated(op.gc.bg, op.wp.colgc.bg, op.wp.active,
                                     op.wp.window.options.active_style.bg,
                                     op.wp.window.options.style.bg)

\* C15 as the code has it: the window-active-style component is taken only
\* when the pane is the active pane and that component is not 8 itself;
\* otherwise the window-style component is.
C15_DefaultColourFallback ==
    op.name = "default_colours" =>
        /\ op.res.fg = ResolveWithFallback(op.gc.fg, op.wp.colgc.fg, op.wp.active,
                                           op.wp.window.options.active_style.fg,
                                           op.wp.window.options.style.fg)
        /\ op.res.bg = ResolveWithFallback(op.gc.bg, op.wp.colgc.bg, op.wp.active,
                                           op.wp.window.options.active_style.bg,
                                           op.wp.window.options.style.bg)
        /\ op.res.attr = op.gc.attr

\* The active pane of a window whose window-active-style sets only the
\* background: the default foreground has become the window-style's.
C15_Witness ==
    /\ op.name = "default_colours" /\ op.wp.active /\ op.wp.colgc = DefaultStyle
    /\ op.wp.window.options.active_style = [fg |-> 8, bg |-> 6]
    /\ op.wp.window.options.style = [fg |-> 4, bg |-> 7]
    /\ op.gc.fg = 8 /\ op.gc.bg = 8 /\ op.res.fg = 4 /\ op.res.bg = 6

\* A byte of a cell's data.
IsCellByte(tok) == IsByte(tok) /\ tok.a >= 32
\* No cursor positioning precedes the first cell / follows the last cell.
NoMoveBeforeFirstCell(out) ==
    \A i \in DOMAIN out : IsMove(out[i]) => \E j \in 1..(i - 1) : IsCellByte(out[j])
NoMoveAfterLastCell(out) ==
    \A i \in DOMAIN out : IsMove(out[i]) => \E j \in (i + 1)..Len(out) : IsCellByte(out[j])

\* The wrap predicate of the last draw_line: the row is not the first, the
\* line above it is flagged WRAPPED, the pane starts at column 0, the shadow
\* cursor was past the last column, and the row is the one below the shadow
\* row or the shadow row is the bottom of the screen's scroll region.
DrawWraps ==
    /\ op.py > 0 /\ op.ox = 0
    /\ "WRAPPED" \in op.s.grid[op.py].flags
    /\ UGe(op.cx, tty.sx)
    /\ (op.oy + op.py = op.cy + 1 \/ op.cy = op.s.rlower + op.oy)
\* The line drawn has a cell to draw.
DrawsCells == op.s.grid[op.py + 1].cellsize > 0
\* The last draw_line followed the draw_line of the line above it on the same
\* screen, that line being wrapped and as wide as the terminal.
DrawFollowsFullLine ==
    /\ op.before.drawn /\ op.before.py = op.py - 1 /\ op.before.s = op.s
    /\ op.ox = 0 /\ op.s.sx >= tty.sx
    /\ op.s.grid[op.py].cellsize >= tty.sx
    /\ "WRAPPED" \in op.s.grid[op.py].flags
DrawJoins ==
    /\ NoMoveAfterLastCell(op.before.out)
    /\ DrawsCells => NoMoveBeforeFirstCell(tty.out)

\* C16 as the specification states it: when the wrap predicate holds,
\* draw_line emits no cursor positioning before the line's first cell; and a
\* full-width wrapped line followed by the line below it is drawn with no
\* cursor positioning between the cells of the two lines.
C16_WrapPreservation ==
    op.name = "draw_line" =>
        /\ (DrawWraps /\ DrawsCells) => NoMoveBeforeFirstCell(tty.out)
        /\ DrawFollowsFullLine => DrawJoins

\* The line above was drawn on its own row: the shadow cursor it left is on
\* the row above the row drawn now.
DrawLeftOnRowAbove == op.cy = op.oy + op.py - 1

\* C16 as the code has it: when the wrap predicate holds, draw_line emits no
\* cursor positioning before the line's first cell; and on a terminal that
\* does not wrap early, a full-width wrapped line drawn on its own row and
\* then the line below it are drawn with no cursor positioning between the
\* cells of the two lines.
C16_WrapPreservationLateWrap ==
    op.name = "draw_line" =>
        /\ (DrawWraps /\ DrawsCells) => NoMoveBeforeFirstCell(tty.out)
        /\ (DrawFollowsFullLine /\ "EARLYWRAP" \notin Terms[tty.term].flags
                /\ DrawLeftOnRowAbove) => DrawJoins

\* The second line of a screen of full wrapped lines has been drawn after the
\* first, its cells following with no cursor positioning.
C16_Witness ==
    /\ op.name = "draw_line" /\ op.py = 1 /\ DrawWraps /\ DrawFollowsFullLine
    /\ op.cx = tty.sx /\ op.cy = 0
    /\ Moves(tty.out) = <<>> /\ Tok("CH", 97, 1) \in Range(tty.out)

\* The size resize() takes from the query: 80 columns, 24 rows where the
\* query fails or reports 0.
QueriedSize(ws) ==
    IF ws = "fail" THEN <<80, 24>>
    ELSE <<IF ws[1] = 0 THEN 80 ELSE ws[1], IF ws[2] = 0 THEN 24 ELSE ws[2]>>
\* What resize() leaves after a resync: the size the query gave, the shadow
\* cursor at 0,0 and, on a terminal with CSR, the shadow region the whole screen.
Resynced(t, ws) ==
    /\ <<t.sx, t.sy>> = QueriedSize(ws)
    /\ t.cx = 0 /\ t.cy = 0
    /\ tty_term_has(t.term, "CSR") => (t.rupper = 0 /\ t.rlower = t.sy - 1)

\* C17 as the specification states it: every resize() on a started terminal,
\* whatever size the query returns, leaves the shadow cursor at 0,0 and, on a
\* terminal with CSR, the shadow region at (0, sy-1) for the new sy.
C17_ResizeResync ==
    [][(op'.name = "resize" /\ "STARTED" \in tty.flags) => Resynced(tty', op'.ws)]_vars

\* C17 as the code has it: a resize() on a started terminal that finds the
\* size changed resyncs; one that finds the size unchanged emits nothing and
\* leaves the shadows as they were.
C17_ResizeResyncOnChange ==
    [][(op'.name = "resize" /\ "STARTED" \in tty.flags) =>
          IF QueriedSize(op'.ws) = <<tty.sx, tty.sy>>
          THEN tty'.out = <<>> /\ Shadow(tty') = Shadow(tty)
                 /\ tty'.sx = tty.sx /\ tty'.sy = tty.sy
          ELSE Resynced(tty', op'.ws)]_vars

\* A started terminal whose size query failed has become 80x24 and has been
\* resynced with a cursor move and a CSR.
C17_Witness ==
    /\ op.name = "resize" /\ op.ws = "fail" /\ Started
    /\ tty.sx = 80 /\ tty.sy = 24 /\ tty.cx = 0 /\ tty.cy = 0
    /\ tty.rupper = 0 /\ tty.rlower = 23
    /\ \E i \in DOMAIN tty.out : tty.out[i].k = "CSR"

\* C18: after start(), STARTED is set, the shadow mode is exactly
\* {cursor-visible}, cx, cy, rupper and rlower are the sentinel, the shadow
\* cell is the default cell and the shadow cursor colour is empty, whatever
\* the state before.
C18_StartPostState ==
    op.name = "start" =>
        /\ "STARTED" \in tty.flags
        /\ tty.mode = {"CURSOR"}
        /\ tty.cx = UINT_MAX /\ tty.cy = UINT_MAX
        /\ tty.rupper = UINT_MAX /\ tty.rlower = UINT_MAX
        /\ tty.cell = [attr |-> {}, fg |-> 8, bg |-> 8]
        /\ tty.ccolour = ""

\* start() has run on a tty that a resize had made 80 columns by 24 rows.
C18_Witness ==
    /\ op.name = "start" /\ Started /\ tty.sx = 80 /\ tty.sy = 24
    /\ tty.mode = {"CURSOR"} /\ tty.cx = UINT_MAX /\ tty.ccolour = ""
    /\ rt.sx = 80

\* C19: stop() on a tty without STARTED emits nothing and changes no state;
\* stop() on a started tty clears STARTED; and when the size query or the
\* line-discipline restore fails, stop() emits no teardown byte.
C19_StopTolerant ==
    [][op'.name = "stop" =>
          /\ "STARTED" \notin tty.flags => tty' = Fresh(tty)
          /\ "STARTED" \notin tty'.flags
          /\ ~op'.ok => tty'.out = <<>>]_vars

\* A tty that was started and stopped has been stopped again, the queries
\* succeeding, and nothing was emitted.
C19_Witness ==
    /\ op.name = "stop" /\ op.ok /\ ~Started
    /\ tty.mode = {"CURSOR"} /\ tty.out = <<>>

\* The bytes the attempts before attempt k took, counted.
RECURSIVE TakenBefore(_, _)
TakenBefore(writes, k) ==
    IF k <= 1 THEN 0
    ELSE TakenBefore(writes, k - 1)
         + (IF writes[k - 1].n >= 0 THEN writes[k - 1].n ELSE 0)
\* The bytes of a string from position k on.
From(str, k) == SubSeq(str, k, Len(str))
\* The bytes of the terminal's input.
Bytes(out) == [k \in DOMAIN out |-> out[k].a]

\* C20: raw(bytes) makes at most 5 write attempts and has returned after the
\* fifth; it returns as soon as every byte has been accepted and at once on a
\* write error other than EAGAIN; every attempt is handed exactly the bytes
\* not yet accepted; and what reached the terminal is the accepted prefix of
\* the string, the remainder being dropped.
C20_BoundedRawWrite ==
    op.name = "raw" =>
        /\ Len(op.writes) <= 5
        /\ Len(op.writes) = 5 => op.pc = "done"
        /\ \A k \in DOMAIN op.writes :
              /\ op.writes[k].buf = From(op.str, TakenBefore(op.writes, k) + 1)
              /\ k < Len(op.writes) =>
                    /\ op.writes[k].n < 0 => op.writes[k].errno = "EAGAIN"
                    /\ op.writes[k].n < Len(op.writes[k].buf)
        /\ (op.writes # <<>> /\ op.writes[Len(op.writes)].errno = "EIO") => op.pc = "done"
        /\ (op.writes # <<>> /\ op.writes[Len(op.writes)].n = Len(op.writes[Len(op.writes)].buf))
              => op.pc = "done"
        /\ Bytes(tty.out) = SubSeq(op.str, 1, TakenBefore(op.writes, Len(op.writes) + 1))
        /\ op.s = From(op.str, TakenBefore(op.writes, Len(op.writes) + 1) + 1)

\* raw("abc") has returned after five attempts, a partial write and an EAGAIN
\* among them, with "c" never written.
C20_Witness ==
    /\ op.name = "raw" /\ op.pc = "done" /\ op.str = <<97, 98, 99>>
    /\ Len(op.writes) = 5 /\ op.s = <<99>>
    /\ op.writes[1].n = 1 /\ op.writes[2].errno = "EAGAIN" /\ op.writes[3].n = 1
    /\ Bytes(tty.out) = <<97, 98>>

\* The positions of a token in the output.
At(out, k) == {i \in DOMAIN out : out[i].k = k}
\* The mouse tokens of the output, in order.
MouseKinds == {"1006h", "1006l", "1002h", "1002l", "1000h", "1000l"}
IsMouse(tok) == tok.k \in MouseKinds
MouseToks(out) == [i \in DOMAIN SelectSeq(out, IsMouse) |-> SelectSeq(out, IsMouse)[i].k]
\* The mode update_mode works with: cursor-visible masked out under NOCURSOR.
OpMode == IF op.nocursor THEN op.mode \ {"CURSOR"} ELSE op.mode

\* C21: in update_mode, when the mouse bits change and the new mode has a
\* mouse mode, \e[?1006h comes before the tracking enable (1002h for button,
\* else 1000h); when they change and the new mode has none, the disable of
\* the tracking mode that was on comes before \e[?1006l; and afterwards the
\* shadow mode is the requested mode, cursor-visible masked under NOCURSOR.
C21_MouseModeOrder ==
    (op.name = "update_mode" /\ "nocursor" \in DOMAIN op) =>
        /\ tty.mode = OpMode
        /\ IF OpMode \cap ALL_MOUSE_MODES = op.old \cap ALL_MOUSE_MODES
           THEN MouseToks(tty.out) = <<>>
           ELSE IF OpMode \cap ALL_MOUSE_MODES # {}
           THEN MouseToks(tty.out) =
                    <<"1006h", IF "MOUSE_BUTTON" \in OpMode THEN "1002h" ELSE "1000h">>
           ELSE MouseToks(tty.out) =
                    <<IF "MOUSE_BUTTON" \in op.old THEN "1002l" ELSE "1000l", "1006l">>

\* Button tracking, on in the shadow mode, has been switched off by a call
\* made under NOCURSOR: the tracking disable, then \e[?1006l.
C21_Witness ==
    /\ op.name = "update_mode" /\ "nocursor" \in DOMAIN op
    /\ op.old = {"CURSOR", "MOUSE_BUTTON"} /\ op.mode = {"CURSOR"} /\ op.nocursor
    /\ tty.mode = {} /\ MouseToks(tty.out) = <<"1002l", "1006l">>

\* C22: with the debug log configured, after any sequence of buffered
\* emissions (puts, putc with or without the ACS charset attribute, putn)
\* the bytes written to the log are the bytes appended to the output buffer,
\* in the same order; raw writes are in neither.
C22_LogTeeVerbatim == "log" \in DOMAIN op => op.log = op.buf

\* The target column of the last cursor_to after the clamp to the last column.
OpCx == IF op.cx > tty.sx - 1 THEN tty.sx - 1 ELSE op.cx
\* A row lies inside the scroll region the last cursor_to found.
InRegion(y) == ULe(op.from.rupper, y) /\ ULe(y, op.from.rlower)
\* The last cursor_to started inside the scroll region and ended outside it.
LeavesRegion == InRegion(op.from.cy) /\ ~InRegion(op.cy)
HasKind(out, kinds) == \E i \in DOMAIN out : out[i].k \in kinds
HasLF(out) == \E i \in DOMAIN out : IsByte(out[i]) /\ out[i].a = 10

\* C23: cursor_to emits no line feed when the shadow row is the region's
\* lower bound, no CUU1 from the region's upper bound row and no CUD1 from
\* its lower bound row, and no CUU(n)/CUD(n) for a move that starts inside
\* the scroll region and ends outside it; a same-column move of that kind is
\* made with VPA, or with CUP where VPA is absent.
C23_RegionSafeCursor ==
    op.name = "cursor_to" =>
        /\ HasLF(tty.out) => op.from.cy # op.from.rlower
        /\ HasKind(tty.out, {"CUU1"}) => op.from.cy # op.from.rupper
        /\ HasKind(tty.out, {"CUD1"}) => op.from.cy # op.from.rlower
        /\ LeavesRegion => ~HasKind(tty.out, {"CUU", "CUD", "CUU1", "CUD1"}) /\ ~HasLF(tty.out)
        /\ (/\ LeavesRegion /\ OpCx = op.from.cx
            /\ ~(OpCx = 0 /\ op.cy = 0 /\ tty_term_has(tty.term, "HOME")))
              => tty.out = IF tty_term_has(tty.term, "VPA") THEN <<Tok("VPA", op.cy, 0)>>
                           ELSE <<Tok("CUP", op.cy, OpCx)>>

\* A move two rows down in the same column, out of the region 0..2, was made
\* with VPA.
C23_Witness ==
    /\ op.name = "cursor_to" /\ op.from.rupper = 0 /\ op.from.rlower = 2
    /\ op.from.cy = 1 /\ op.cy = 3 /\ op.from.cx = 2 /\ op.cx = 2
    /\ tty.out = <<Tok("VPA", 3, 0)>>

\* The last cursor_to moved within the row, not to column 0 and not by one
\* step a one-step capability makes, from a column of the screen.
SameRowMove ==
    /\ op.name = "cursor_to" /\ op.from.cy = op.cy /\ OpCx # op.from.cx
    /\ ~UGt(op.from.cx, tty.sx - 1)
    /\ OpCx # 0
    /\ ~(OpCx = op.from.cx - 1 /\ tty_term_has(tty.term, "CUB1"))
    /\ ~(OpCx = op.from.cx + 1 /\ tty_term_has(tty.term, "CUF1"))

\* C24: for such a move from column thisx to column cx, HPA(cx) is used when
\* the distance exceeds cx and HPA exists; else CUB with count thisx - cx
\* when cx < thisx (two CUB1 when the count is 2 and CUB1 exists), CUF with
\* count cx - thisx when cx > thisx; and CUP when no capability applies.
C24_HorizontalDirection ==
    SameRowMove =>
        /\ HasKind(tty.out, {"CUB", "CUB1"}) => OpCx < op.from.cx
        /\ HasKind(tty.out, {"CUF", "CUF1"}) => OpCx > op.from.cx
        /\ tty.out =
             IF Abs(op.from.cx - OpCx) > OpCx /\ tty_term_has(tty.term, "HPA")
             THEN <<Tok("HPA", OpCx, 0)>>
             ELSE IF OpCx < op.from.cx /\ tty_term_has(tty.term, "CUB")
             THEN IF op.from.cx - OpCx = 2 /\ tty_term_has(tty.term, "CUB1")
                  THEN <<Tok("CUB1", 0, 0), Tok("CUB1", 0, 0)>>
                  ELSE <<Tok("CUB", op.from.cx - OpCx, 0)>>
             ELSE IF OpCx > op.from.cx /\ tty_term_has(tty.term, "CUF")
             THEN <<Tok("CUF", OpCx - op.from.cx, 0)>>
             ELSE <<Tok("CUP", op.cy, OpCx)>>

\* A move three columns to the left, from column 6 to column 3, was made
\* with CUB(3).
C24_Witness ==
    /\ SameRowMove /\ op.from.cx = 6 /\ op.cx = 3
    /\ tty.out = <<Tok("CUB", 3, 0)>>

\* The sequence that sets an attribute bit on the terminal, "" where the
\* terminal has none for it.
AttrCode(t, bit) ==
    LET code == CASE bit = "BRIGHT" -> "BOLD"
                  [] bit = "DIM" -> "DIM"
                  [] bit = "ITALICS" ->
                       IF tty_term_has(t.term, "SITM") /\ t.default_terminal \notin ScreenTerminals
                       THEN "SITM" ELSE "SMSO"
                  [] bit = "UNDERSCORE" -> "SMUL"
                  [] bit = "BLINK" -> "BLINK"
                  [] bit = "REVERSE" -> IF tty_term_has(t.term, "REV") THEN "REV" ELSE "SMSO"
                  [] bit = "HIDDEN" -> "INVIS"
                  [] bit = "CHARSET" -> IF tty_use_acs(t) THEN "SMACS" ELSE ""
                  [] OTHER -> ""
    IN  IF code # "" /\ tty_term_has(t.term, code) THEN code ELSE ""
AttrSetKinds == {"BOLD", "DIM", "SITM", "SMSO", "SMUL", "BLINK", "REV", "INVIS", "SMACS"}
FgKinds == {"SETAF", "AIX", "38;5", "38;2", "39"}
BgKinds == {"SETAB", "48;5", "48;2", "49"}
ColourKinds == FgKinds \cup BgKinds \cup {"AIX"}
\* The position of the last SGR0 of the output, 0 when there is none.
LastSGR0(out) ==
    IF At(out, "SGR0") = {} THEN 0
    ELSE CHOOSE i \in At(out, "SGR0") : \A j \in At(out, "SGR0") : j <= i
EmittedAfter(out, k, tok) == \E i \in DOMAIN out : i > k /\ out[i] = tok

\* C25: whenever attributes() emits SGR0, every attribute bit of the
\* effective desired cell the terminal has a sequence for is emitted after
\* that SGR0 within the call, every non-default desired colour the terminal
\* can set is emitted after it, and every colour code precedes every
\* attribute-set code.
C25_Sgr0KeepsDesired ==
    (op.name = "attributes" /\ "gc2" \in DOMAIN op) =>
        /\ LastSGR0(tty.out) > 0 =>
              /\ \A bit \in op.gc2.attr :
                    AttrCode(tty, bit) # "" =>
                        EmittedAfter(tty.out, LastSGR0(tty.out), Tok(AttrCode(tty, bit), 0, 0))
              /\ (op.gc2.fg # 8 /\ tty_term_has(tty.term, "SETAF")) =>
                    EmittedAfter(tty.out, LastSGR0(tty.out), Tok("SETAF", op.gc2.fg, 0))
              /\ (op.gc2.bg # 8 /\ tty_term_has(tty.term, "SETAB")) =>
                    EmittedAfter(tty.out, LastSGR0(tty.out), Tok("SETAB", op.gc2.bg, 0))
        /\ \A i, j \in DOMAIN tty.out :
              (tty.out[i].k \in ColourKinds /\ tty.out[j].k \in AttrSetKinds) => i < j

\* On a terminal without AX, a bold red cell wanted with a default background
\* over a bold shadow with a background: the colour path has reset, and red
\* and bold have been emitted after the SGR0.
C25_Witness ==
    /\ op.name = "attributes" /\ "gc2" \in DOMAIN op /\ tty.term = "noax"
    /\ op.tc = [attr |-> {"BRIGHT"}, fg |-> 1, bg |-> 4]
    /\ op.gc2 = [attr |-> {"BRIGHT"}, fg |-> 1, bg |-> 8]
    /\ tty.out = <<Tok("SGR0", 0, 0), Tok("SETAF", 1, 0), Tok("BOLD", 0, 0)>>

\* C26: for every cell and every terminal colour depth, check_bg leaves the
\* cell's fg and attr as they were, and a palette-256 background on a
\* terminal that is not 256-colour becomes one of 0..7.
C26_CheckBgFrame ==
    op.name = "check_bg" =>
        /\ op.res.fg = op.gc.fg
        /\ op.res.attr = op.gc.attr
        /\ (Is256(op.gc.bg) /\ ~Has256(tty)) => op.res.bg \in 0..7

\* The cell of the last attributes() with its default colours resolved.
OpResolved == tty_default_colours(op.gc, pane)
\* The sequence that switches reverse video on: REV, or SMSO where REV is absent.
RevTok == Tok(IF tty_term_has(tty.term, "REV") THEN "REV" ELSE "SMSO", 0, 0)

\* C27: on a terminal without SETAB, attributes() for a cell without REVERSE
\* whose resolved bg is neither 0 nor 8 leaves REVERSE in the shadow, having
\* emitted REV (SMSO where REV is absent) unless the shadow had it already;
\* attributes() for a cell without REVERSE and with bg 8, over a shadow with
\* REVERSE, clears it from the shadow and emits SGR0; and a cell that has
\* REVERSE keeps it exactly when its fg is 7 or 8.
C27_ReverseFallback ==
    (op.name = "attributes" /\ "gc2" \in DOMAIN op /\ ~tty_term_has(tty.term, "SETAB")) =>
        /\ ("REVERSE" \notin op.gc.attr /\ OpResolved.bg \notin {0, 8}) =>
              /\ "REVERSE" \in tty.cell.attr
              /\ "REVERSE" \notin op.tc.attr => RevTok \in Range(tty.out)
        /\ ("REVERSE" \notin op.gc.attr /\ OpResolved.bg = 8 /\ "REVERSE" \in op.tc.attr) =>
              /\ "REVERSE" \notin tty.cell.attr
              /\ Tok("SGR0", 0, 0) \in Range(tty.out)
        /\ "REVERSE" \in op.gc.attr =>
              ("REVERSE" \in tty.cell.attr <=> OpResolved.fg \in {7, 8})

\* On a terminal without SETAB and without REV, a cell with fg 7 and bg 4 has
\* been given the reverse attribute with SMSO.
C27_Witness ==
    /\ op.name = "attributes" /\ "gc2" \in DOMAIN op /\ tty.term = "norev"
    /\ op.gc.attr = {} /\ op.gc.fg = 7 /\ op.gc.bg = 4 /\ op.tc.attr = {}
    /\ "REVERSE" \in tty.cell.attr /\ Tok("SMSO", 0, 0) \in Range(tty.out)

\* The pane of the last scroll operation is eligible for the native path.
OpNative ==
    /\ tty_pane_full_width(op.from, op.ctx)
    /\ ~tty_fake_bce(op.from, op.ctx.wp)
    /\ tty_term_has(tty.term, "CSR")
IsScrollOp(name) == op.name = name /\ "ctx" \in DOMAIN op

\* C28: linefeed with ocy # orlower, reverseindex with ocy # orupper, and
\* linefeed on a pane eligible for the native path with num # 0 on a terminal
\* that does not wrap early, emit nothing and leave the shadow cursor, region,
\* cell and mode and the pane's redraw flag as they were.
C28_GuardedScrollNoOp ==
    (\/ IsScrollOp("linefeed") /\ op.ctx.ocy # op.ctx.orlower
     \/ IsScrollOp("reverseindex") /\ op.ctx.ocy # op.ctx.orupper
     \/ /\ IsScrollOp("linefeed") /\ OpNative /\ op.ctx.num # 0
        /\ "EARLYWRAP" \notin Terms[tty.term].flags)
    => tty = op.from

\* A linefeed on the last row of the region of a full-width pane, after a line
\* that wrapped naturally, has left a positioned tty as it was.
C28_Witness ==
    /\ IsScrollOp("linefeed") /\ OpNative /\ tty.term = "full"
    /\ op.ctx.num = 1 /\ op.ctx.ocy = op.ctx.orlower
    /\ tty.cx # UINT_MAX /\ tty.rupper # UINT_MAX
    /\ tty = op.from

\* The region of the last redraw is more than half of the pane.
OpLarge == op.ctx.orlower - op.ctx.orupper >= op.ctx.wp.screen.sy \div 2
\* The rows first..last in increasing order.
RowsFromTo(first, last) == [i \in 1..(last - first + 1) |-> first + i - 1]
\* The rows the redraw is to draw: the region when ocy lies inside it, else
\* ocy and every row below it.
OpRows ==
    IF op.ctx.orupper <= op.ctx.ocy /\ op.ctx.ocy <= op.ctx.orlower
    THEN RowsFromTo(op.ctx.orupper, op.ctx.orlower)
    ELSE RowsFromTo(op.ctx.ocy, op.ctx.wp.screen.sy - 1)
RECURSIVE DrawnInOrder(_, _, _)
\* The tty after the rows have been drawn one after the other, each once
\* (t = t has the tty of one row computed before the next row is drawn).
DrawnInOrder(t, ctx, rows) ==
    IF t = t /\ rows = <<>> THEN t
    ELSE DrawnInOrder(tty_draw_pane(t, ctx.wp, Head(rows), ctx.xoff, ctx.yoff), ctx, Tail(rows))

\* C29: redraw_region marks the pane PANE_REDRAW and emits nothing exactly
\* when orlower - orupper >= screen_height / 2; otherwise it leaves the flag
\* alone and draws rows orupper..orlower when ocy lies inside the region, and
\* rows ocy..screen_height-1 when it lies outside, each once, in increasing order.
C29_RedrawRegionThreshold ==
    IsScrollOp("redraw_region") =>
        IF OpLarge
        THEN tty = [op.from EXCEPT !.wpflags = @ \cup {"PANE_REDRAW"}]
        ELSE /\ tty = DrawnInOrder(op.from, op.ctx, OpRows)
             /\ tty.out # <<>>
             /\ tty.wpflags = op.from.wpflags

\* A redraw with ocy above a two-row region has drawn three rows or more and
\* has not marked the pane.
C29_Witness ==
    /\ IsScrollOp("redraw_region") /\ ~OpLarge
    /\ op.ctx.ocy < op.ctx.orupper /\ Len(OpRows) >= 3
    /\ "PANE_REDRAW" \notin tty.wpflags /\ tty.out # <<>>

\* The last operation is a rawstring with its string recorded.
IsRawString == op.name = "rawstring" /\ "ptr" \in DOMAIN op
\* The bytes the last operation appended to the output buffer.
OutBytes == BufferBytes(tty, tty.out)
\* The output begins with the num bytes of the string, byte for byte.
RawVerbatim ==
    /\ Len(OutBytes) >= op.num
    /\ \A i \in 1..op.num : OutBytes[i] = Tok("CH", op.ptr[i], 1)
\* The shadow after rawstring: the region is the sentinel, the cell is the
\* pane's resolved default cell, the cursor is (0,0) and CUP was sent last.
RawPostState ==
    /\ tty.rupper = UINT_MAX /\ tty.rlower = UINT_MAX
    /\ tty.cell = CellSGR(tty_default_colours(grid_default_cell, pane))
    /\ tty.cx = 0 /\ tty.cy = 0
    /\ tty.out # <<>> /\ tty.out[Len(tty.out)] = Tok("CUP", 0, 0)
\* After a rawstring the post-state of the shadow is as described.
RawStringPostState == IsRawString => RawPostState

\* C30: rawstring appends the ctx.num bytes of the string to the output byte
\* for byte whatever the shadow attribute state, the charset attribute in the
\* shadow cell included; on return the region shadow is the sentinel, the
\* shadow cell is the pane's resolved default cell, and the shadow cursor is
\* (0,0), reached by an absolute move.
C30_RawStringVerbatim == IsRawString => (RawVerbatim /\ RawPostState)

\* The last operation is a cmd_cell with its context recorded.
IsCellOp == op.name = "cell" /\ "ctx" \in DOMAIN op
\* Its pane fills the terminal's width.
OpFullWidth == op.ctx.xoff = 0 /\ op.ctx.wp.sx = op.from.sx
\* Its cursor is past the column where the cell still fits.
OpPastEdge == op.ctx.ocx > op.ctx.wp.sx - op.ctx.cell.data.width
\* The tty when cmd_cell looks at the shadow cursor: the region has been set
\* if ocy is the region's last row.
OpAtTest ==
    IF op.ctx.ocy = op.ctx.orlower
    THEN tty_region(op.from, op.ctx.yoff + op.ctx.orupper, op.ctx.yoff + op.ctx.orlower)
    ELSE op.from
\* The characters cell_put writes for a cell that it does not skip.
CellBytes(gc) ==
    IF gc.data.size = 1 \/ "UTF8" \in tty.flags THEN 1 ELSE gc.data.width
\* The characters written since cmd_cell looked at the shadow cursor.
OpWritten == SelectSeq(SubSeq(tty.out, Len(OpAtTest.out) + 1, Len(tty.out)), IsCellByte)
OpMoved == SelectSeq(SubSeq(tty.out, Len(OpAtTest.out) + 1, Len(tty.out)), IsMove)
\* The tail of the line: the cursor goes to column (screen width - last_cell
\* width) of row ocy, and last_cell and the cell go through cell_put.
OpRewound ==
    tty = tty_cell(tty_cell(tty_cursor(OpAtTest,
                                       op.ctx.wp.screen.sx - op.ctx.last_cell.data.width,
                                       op.ctx.yoff + op.ctx.ocy),
                            op.ctx.last_cell, op.ctx.wp),
                   op.ctx.cell, op.ctx.wp)
\* The pending wrap: the cell goes through cell_put where the cursor is.
OpUnmoved == tty = tty_cell(OpAtTest, op.ctx.cell, op.ctx.wp) /\ OpMoved = <<>>
\* Inside the line: the cursor goes to (ocx, ocy) and the cell through cell_put.
OpPlaced ==
    tty = tty_cell(tty_cursor(OpAtTest, op.ctx.ocx, op.ctx.yoff + op.ctx.ocy),
                   op.ctx.cell, op.ctx.wp)
\* cell_put skips at the last cell of a terminal that wraps early.
OpAtLastCell(row) == "EARLYWRAP" \in Terms[tty.term].flags /\ row = tty.sy - 1

\* C31 as stated: on a full-width pane, with ocx > pane width - cell width and
\* the shadow cx < tty.sx, the cursor goes to column (screen width - last_cell
\* width) of row ocy and last_cell is written again before the cell; with the
\* shadow cx >= tty.sx no cursor movement precedes the cell; with
\* ocx <= pane width - cell width the cursor is placed at (ocx, ocy).
C31_TailOfLineWrap ==
    (IsCellOp /\ OpFullWidth) =>
        IF OpPastEdge
        THEN IF ULt(OpAtTest.cx, tty.sx)
             THEN /\ OpRewound
                  /\ Len(OpWritten) = CellBytes(op.ctx.last_cell) + CellBytes(op.ctx.cell)
             ELSE OpUnmoved
        ELSE OpPlaced

\* C31 (amended): as stated, except that last_cell and the cell are handed to
\* cell_put, which writes neither of them at the last cell of the last row of
\* a terminal that wraps early.
C31_TailOfLineWrapThroughCellPut ==
    (IsCellOp /\ OpFullWidth) =>
        IF OpPastEdge
        THEN IF ULt(OpAtTest.cx, tty.sx)
             THEN /\ OpRewound
                  /\ Len(OpWritten) =
                        IF OpAtLastCell(op.ctx.yoff + op.ctx.ocy)
                           /\ op.ctx.last_cell.data.width = 1
                        THEN 0
                        ELSE CellBytes(op.ctx.last_cell) + CellBytes(op.ctx.cell)
             ELSE OpUnmoved
        ELSE OpPlaced

\* On a full-width pane the cursor was inside the line, the cell came at the
\* tail of the line, and last_cell and the cell have both been written.
C31_Witness ==
    /\ IsCellOp /\ OpFullWidth /\ OpPastEdge /\ tty.term = "full"
    /\ ULt(OpAtTest.cx, tty.sx) /\ OpAtTest.cx # op.ctx.wp.screen.sx - 1
    /\ op.ctx.cell = CellA /\ op.ctx.last_cell = CellA
    /\ Len(OpWritten) = 2 /\ OpMoved # <<>>

\* The row the claim has the cell written on: ocy when ocy is the last row of
\* the pane screen's scroll region, else the row below ocy.
OpNextRow ==
    IF op.ctx.ocy = op.ctx.wp.screen.rlower THEN op.ctx.ocy ELSE op.ctx.ocy + 1

\* C32: on a pane narrower than the terminal, when ocx is past the pane's right
\* edge the cell is written at column 0 of row ocy + 1 of the pane, or of row
\* ocy when ocy is the last row of the pane screen's scroll region, and the
\* row written lies within the pane's rows [yoff, yoff + pane height).
C32_CellStaysInPane ==
    (IsCellOp /\ ~OpFullWidth /\ OpPastEdge) =>
        /\ tty.cy = op.ctx.yoff + OpNextRow
        /\ tty.cx = op.ctx.xoff + op.ctx.cell.data.width
        /\ op.ctx.yoff <= tty.cy /\ tty.cy < op.ctx.yoff + op.ctx.wp.sy

\* The last operation is a cell_put with its cell recorded.
IsPutOp == op.name = "cell_put" /\ "gc" \in DOMAIN op
\* Where a terminal puts a character of width w: at its cursor, or at the
\* start of the next row when the character does not fit any more.
RtLands(r, w) ==
    IF r.x + w > r.sx THEN [x |-> 0, y |-> RtDown(r)] ELSE [x |-> r.x, y |-> r.y]
RECURSIVE WritesLastCell(_, _)
\* A character of the output covers cell (sx-1, sy-1) of terminal r.
WritesLastCell(r, out) ==
    IF out = <<>> THEN FALSE
    ELSE \/ /\ IsCellByte(Head(out))
            /\ RtLands(r, Head(out).b).y = r.sy - 1
            /\ RtLands(r, Head(out).b).x + Head(out).b = r.sx
         \/ WritesLastCell(RtStep(r, Head(out), <<0, 0>>), Tail(out))
\* cell_put found an early-wrap terminal with the shadow cursor at (sx-1, sy-1).
PutAtLastCell ==
    /\ "EARLYWRAP" \in Terms[tty.term].flags
    /\ op.from.cx = tty.sx - 1 /\ op.from.cy = tty.sy - 1
\* cell_put skips: nothing is emitted, the shadow cursor and cell are unchanged.
PutSkips ==
    (IsPutOp /\ (PutAtLastCell \/ "PADDING" \in op.gc.flags)) => tty = op.from

\* C33: on an early-wrap terminal with the shadow cursor at (sx-1, sy-1), and
\* for any padding cell, cell_put emits nothing and leaves the shadow cursor
\* and cell unchanged; and on an early-wrap terminal no cell_put writes a
\* character into cell (sx-1, sy-1).
C33_CellPutSkips ==
    /\ PutSkips
    /\ (IsPutOp /\ "EARLYWRAP" \in Terms[tty.term].flags) =>
          ~WritesLastCell(op.rt0, tty.out)

\* The last operation is a draw_line with the tty it found recorded.
IsDrawOp == op.name = "draw_line" /\ "from" \in DOMAIN op
RECURSIVE HiddenWhileWriting(_, _)
\* No character of the output is written while the cursor is shown; visible
\* is whether it is shown before the output.
HiddenWhileWriting(visible, out) ==
    IF out = <<>> THEN TRUE
    ELSE /\ IsCellByte(Head(out)) => ~visible
         /\ HiddenWhileWriting(IF Head(out).k \in {"CNORM", "CVVIS"} THEN TRUE
                               ELSE IF Head(out).k = "CIVIS" THEN FALSE
                               ELSE visible,
                               Tail(out))
\* draw_line leaves TTY_NOCURSOR as it found it and writes its cells with the
\* cursor hidden.
DrawKeepsFlagAndHides ==
    IsDrawOp =>
        /\ tty.flags \cap {"NOCURSOR"} = op.from.flags \cap {"NOCURSOR"}
        /\ HiddenWhileWriting("CURSOR" \in op.from.mode, tty.out)

\* C34: draw_line leaves the NOCURSOR flag with the value it had on entry, the
\* cursor is hidden while cells are emitted, and on exit the cursor-visible
\* bit of the shadow mode equals its value on entry.
C34_DrawLineRestoresCursor ==
    /\ DrawKeepsFlagAndHides
    /\ IsDrawOp => ("CURSOR" \in tty.mode <=> "CURSOR" \in op.from.mode)

\* C35: a write with a null pane pointer, or for a pane whose window is
\* flagged WINDOW_REDRAW, that is flagged PANE_REDRAW or PANE_DROP, or that is
\* not visible, invokes no handler and changes no client's tty; so after a
\* handler has set PANE_REDRAW every write for the pane emits nothing until
\* the flag is cleared.
C35_RedrawSuppressesWrites ==
    [][(op'.name = "write" /\ (op'.null \/ WriteSkipped(pane)))
        => (calls' = <<>> /\ clients' = clients /\ pane' = pane)]_vars

\* A handler has flagged the pane PANE_REDRAW, and a later write for the pane
\* has invoked no handler although a client with a started tty is ready.
C35_Witness ==
    /\ op.name = "write" /\ ~op.null
    /\ pane.flags = {"PANE_REDRAW"} /\ pane.visible /\ pane.window.flags = {}
    /\ calls = <<>>
    /\ \E i \in DOMAIN clients :
          tty_client_ready(clients[i], pane) /\ "STARTED" \in clients[i].tty.flags

\* The last call was a close or a free that returned.
Closed == op.name \in {"close", "free"} /\ ~tty.crashed

\* C36: over every sequence of open, stop, close and free on an initialised
\* tty, STARTED implies OPENED; after close STARTED and OPENED are clear and
\* fd is -1; and a close or a free right after a close releases neither the
\* event nor the capability table nor the descriptor again and emits nothing.
C36_LifecycleFlags ==
    /\ "STARTED" \in tty.flags => "OPENED" \in tty.flags
    /\ Closed => (tty.flags \cap {"STARTED", "OPENED"} = {} /\ tty.fd = -1)
    /\ (Closed /\ op.closed) => (tty.rel = {} /\ tty.out = <<>>)
    /\ "twice" \in DOMAIN tty => ~tty.twice

\* An opened and started tty has been closed, and closed again.
C36_Witness ==
    /\ op.name = "close" /\ op.closed /\ ~tty.crashed
    /\ tty.desc = "freed" /\ tty.event = "freed" /\ tty.fd = -1
    /\ tty.rel = {} /\ tty.out = <<>>

====
